----------------------------- MODULE CatalogRows -----------------------------
(***************************************************************************)
(* Pages and row changes of the catalog connection (catalog.ts).  A client *)
(* reads a page of a table, keeps a row of it as a snapshot, and later     *)
(* changes that row: inside its own transaction it locks the row by the    *)
(* old key, compares descriptor and cells with the snapshot, writes, reads *)
(* back and commits.  Other connections change rows and the table itself   *)
(* between the statements.  A row is a key and one ordinary value.         *)
(***************************************************************************)
EXTENDS Integers, FiniteSets

CONSTANTS
  Clients, Keys, Vals, Dialects,
  Start,     \* the rows the table may hold first
  MaxOps,    \* bound on the operations of a client
  MaxOther   \* bound on the changes of other connections

Absent == 0
None == "none"

VARIABLES
  dialect,
  desc,     \* the descriptor of the table: 0 or 1
  trig,     \* its trigger: none, one that changes the value, or one that skips the write
  rows,     \* the committed rows
  locks,    \* the client that holds the lock of a row
  meta,     \* the clients that hold the table's metadata lock
  pc, op,   \* where each client is, and its operation
  snap,     \* the snapshot each client holds
  view,     \* the read view of its transaction
  cur,      \* what it read last
  own,      \* its changes that are not committed
  open,     \* SQLite: a transaction is open on the one connection
  result,   \* how the last operation of each client ended
  applied,  \* that operation changed the database
  ops, others

table == <<desc, trig, rows>>
client == <<pc, op, snap, view, cur, own, result, applied, ops>>
vars == <<dialect, table, locks, meta, client, open, others>>

NoRow == [key |-> None, val |-> Absent, desc |-> 0, at |-> 0]
NoView == [desc |-> -1, rows |-> [k \in Keys |-> Absent]]
Unchanged == -1
NoChange == [k \in Keys |-> Unchanged]

Init ==
  /\ dialect \in Dialects
  /\ desc = 0 /\ trig = None
  /\ rows \in Start
  /\ locks = [k \in Keys |-> None]
  /\ meta = {}
  /\ pc = [c \in Clients |-> "idle"]
  /\ op = [c \in Clients |-> [kind |-> None]]
  /\ snap = [c \in Clients |-> NoRow]
  /\ view = [c \in Clients |-> NoView]
  /\ cur = [c \in Clients |-> NoRow]
  /\ own = [c \in Clients |-> NoChange]
  /\ open = FALSE
  /\ result = [c \in Clients |-> None]
  /\ applied = [c \in Clients |-> FALSE]
  /\ ops = [c \in Clients |-> 0]
  /\ others = 0

At(c, l) == pc[c] = l
Goto(c, l) == pc' = [pc EXCEPT ![c] = l]
Writes(o) == o.kind \in {"update", "delete", "insert"}
InWrite(c) == ~At(c, "idle") /\ Writes(op[c])
Other(v) == CHOOSE w \in Vals : w # v

\* What a statement of c reads: its own changes over its read view, or over what is
\* committed when it has none.
Base(c) == IF view[c] = NoView THEN [desc |-> desc, rows |-> rows] ELSE view[c]
With(rs, changes) == [k \in Keys |-> IF changes[k] = Unchanged THEN rs[k] ELSE changes[k]]
Sees(c) == With(Base(c).rows, own[c])
Current(c) == With(rows, own[c])

\* A read without a lock starts the read view of a SQLite transaction, and of a MySQL
\* one at REPEATABLE READ, which is every writing one: reads are READ COMMITTED.
TakesView(c) == view[c] = NoView /\ (dialect = "sqlite" \/ (dialect = "mysql" /\ Writes(op[c])))
Read(c) == view' = [view EXCEPT ![c] = IF TakesView(c) THEN [desc |-> desc, rows |-> rows] ELSE @]

-----------------------------------------------------------------------------
(* Sessions.                                                               *)

\* begin(): SQLite has one connection, whose write transaction no other writer
\* shares; a session that reads sees the rows at its first read.
Begin(c, o) ==
  /\ At(c, "idle") /\ ops[c] < MaxOps
  /\ dialect = "sqlite" => ~open /\ \A d \in Clients : At(d, "idle")
  /\ ops' = [ops EXCEPT ![c] = @ + 1]
  /\ op' = [op EXCEPT ![c] = o]
  /\ Goto(c, CASE o.kind = "page" -> "describe" [] o.kind = "insert" -> "reserve" [] OTHER -> "lookup")
  /\ result' = [result EXCEPT ![c] = None]
  /\ applied' = [applied EXCEPT ![c] = FALSE]
  /\ open' = (dialect = "sqlite")
  /\ UNCHANGED <<dialect, table, locks, meta, snap, view, cur, own, others>>

\* A faulty end of a session that only discards what a read stopped.
RollsBackUnstopped(stopped) == ~stopped

\* Whether ROLLBACK is sent: SQLite keeps its connection when a session is discarded.
RollsBack(stopped) == ~stopped \/ dialect = "sqlite"

\* A faulty end of a session that sends no ROLLBACK after a failure.
EndTransactionOpen(c, changes) ==
  /\ rows' = With(rows, changes)
  /\ applied' = [applied EXCEPT ![c] = changes # NoChange]
  /\ locks' = [k \in Keys |-> IF locks[k] = c THEN None ELSE locks[k]]
  /\ meta' = meta \ {c}
  /\ view' = [view EXCEPT ![c] = NoView]
  /\ own' = IF changes = NoChange THEN own ELSE [own EXCEPT ![c] = NoChange]
  /\ cur' = [cur EXCEPT ![c] = NoRow]

\* The transaction of c ends, with the changes it makes.
EndTransaction(c, changes) ==
  /\ rows' = With(rows, changes)
  /\ applied' = [applied EXCEPT ![c] = changes # NoChange]
  /\ locks' = [k \in Keys |-> IF locks[k] = c THEN None ELSE locks[k]]
  /\ meta' = meta \ {c}
  /\ view' = [view EXCEPT ![c] = NoView]
  /\ own' = [own EXCEPT ![c] = NoChange]
  /\ cur' = [cur EXCEPT ![c] = NoRow]

Finished(c, r, changes, stopped) ==
  /\ EndTransaction(c, changes)
  /\ open' = (open /\ ~RollsBack(stopped))
  /\ result' = [result EXCEPT ![c] = r]
  /\ op' = [op EXCEPT ![c] = [kind |-> None]]
  /\ Goto(c, "idle")
  /\ UNCHANGED <<dialect, desc, trig, ops, others>>

\* endSession(): the failure, after ROLLBACK or the discard of the connection.
EndSession(c, r) == Finished(c, r, NoChange, FALSE) /\ UNCHANGED snap

\* A statement may fail: a deadlock, a refused value, a lost connection.  SQLite may
\* have ended the transaction by itself; the session then sends no ROLLBACK.
StatementFails(c) ==
  /\ pc[c] \notin {"idle", "commit"}
  /\ EndSession(c, "failed")

-----------------------------------------------------------------------------
(* tablePage() and rowSnapshotFromPage().                                  *)

\* describe(): the descriptor before the read.
PageDescribe(c) ==
  /\ At(c, "describe") /\ op[c].kind = "page"
  /\ Read(c)
  /\ cur' = [cur EXCEPT ![c] = [NoRow EXCEPT !.desc = Base(c).desc]]
  /\ Goto(c, "collect")
  /\ UNCHANGED <<dialect, table, locks, meta, op, snap, own, open, result, applied, ops, others>>

\* The rows, of which the client keeps one; the statement locks the metadata of the
\* table on MySQL and PostgreSQL until the session ends.
Collect(c, k) ==
  /\ At(c, "collect")
  /\ Sees(c)[k] # Absent
  /\ cur' = [cur EXCEPT ![c] = [@ EXCEPT !.key = k, !.val = Sees(c)[k], !.at = Base(c).desc]]
  /\ meta' = IF dialect = "sqlite" THEN meta ELSE meta \cup {c}
  /\ Goto(c, "after")
  /\ UNCHANGED <<dialect, table, locks, op, snap, view, own, open, result, applied, ops, others>>

\* A page without a row of interest, or over its budget, ends the session.
CollectNothing(c) ==
  /\ At(c, "collect")
  /\ \/ (\A k \in Keys : Sees(c)[k] = Absent) /\ EndSession(c, "empty")
     \/ Finished(c, "limit", NoChange, TRUE) /\ UNCHANGED snap

\* A faulty page that does not read the descriptor again.
PageAfterOnce(c) ==
  /\ At(c, "after") /\ op[c].kind = "page"
  /\ Finished(c, "page", NoChange, FALSE)
  /\ snap' = [snap EXCEPT ![c] = cur[c]]

\* The descriptor after the read must be the one before it.
PageAfter(c) ==
  /\ At(c, "after") /\ op[c].kind = "page"
  /\ IF Base(c).desc = cur[c].desc
     THEN Finished(c, "page", NoChange, FALSE) /\ snap' = [snap EXCEPT ![c] = cur[c]]
     ELSE EndSession(c, "page changed")

-----------------------------------------------------------------------------
(* updateRow(), deleteRow() and insertRow().                               *)

Source(c) == snap[c].key

\* lookup() by the old key with FOR UPDATE: it waits for the lock of the row, reads
\* what is committed then, and holds row and metadata until the transaction ends.
Lookup(c) ==
  /\ At(c, "lookup")
  /\ locks[Source(c)] \in {None, c}
  /\ cur' = [cur EXCEPT ![c] = [NoRow EXCEPT !.key = Source(c), !.val = rows[Source(c)]]]
  /\ locks' = IF rows[Source(c)] = Absent THEN locks ELSE [locks EXCEPT ![Source(c)] = c]
  /\ meta' = meta \cup {c}
  /\ Goto(c, "check")
  /\ UNCHANGED <<dialect, table, op, snap, view, own, open, result, applied, ops, others>>

\* A faulty check that compares the key only.
CheckOriginalKey(c) ==
  /\ At(c, "check")
  /\ IF Base(c).desc # snap[c].desc THEN EndSession(c, "schema changed")
     ELSE IF cur[c].val = Absent THEN EndSession(c, "conflict")
     ELSE IF dialect = "mysql" /\ trig # None THEN EndSession(c, "unsupported")
     ELSE /\ Read(c) /\ Goto(c, "write")
          /\ UNCHANGED <<dialect, table, locks, meta, op, snap, cur, own, open, result, applied, ops, others>>

\* describe(), sameDescriptor(), checkCurrent() and mysqlSafety().
CheckOriginal(c) ==
  /\ At(c, "check")
  /\ IF Base(c).desc # snap[c].desc THEN EndSession(c, "schema changed")
     ELSE IF cur[c].val # snap[c].val THEN EndSession(c, "conflict")
     ELSE IF dialect = "mysql" /\ trig # None THEN EndSession(c, "unsupported")
     ELSE /\ Read(c) /\ Goto(c, "write")
          /\ UNCHANGED <<dialect, table, locks, meta, op, snap, cur, own, open, result, applied, ops, others>>

\* A faulty insert that locks nothing before the schema check.
ReserveBare(c) ==
  /\ At(c, "reserve")
  /\ Goto(c, "verify")
  /\ UNCHANGED <<dialect, table, locks, meta, op, snap, view, cur, own, open, result, applied, ops, others>>

\* insertRow(): MySQL locks the metadata by a read for update, PostgreSQL by LOCK
\* TABLE; an explicit key must not exist.
Reserve(c) ==
  /\ At(c, "reserve")
  /\ LET k == op[c].key IN
     IF ~op[c].generated /\ locks[k] \in {None, c} /\ rows[k] # Absent THEN EndSession(c, "conflict")
     ELSE /\ ~op[c].generated => locks[k] \in {None, c}
          /\ meta' = meta \cup {c}
          /\ Goto(c, "verify")
          /\ UNCHANGED <<dialect, table, locks, op, snap, view, cur, own, open, result, applied, ops, others>>

\* The descriptor that the caller declares is that of the page.
Verify(c) ==
  /\ At(c, "verify")
  /\ IF Base(c).desc # snap[c].desc THEN EndSession(c, "schema changed")
     ELSE IF dialect = "mysql" /\ trig # None THEN EndSession(c, "unsupported")
     ELSE /\ Read(c) /\ Goto(c, "write")
          /\ UNCHANGED <<dialect, table, locks, meta, op, snap, cur, own, open, result, applied, ops, others>>

\* The key the changed row has, and what the table stores for a written value.
Target(c) == IF op[c].kind = "delete" THEN Source(c) ELSE op[c].key
Stored(v) == IF trig = "alter" THEN Other(v) ELSE v
Change(c) ==
  LET o == op[c] IN
  CASE o.kind = "delete" -> [own[c] EXCEPT ![Source(c)] = Absent]
    [] o.kind = "update" -> [own[c] EXCEPT ![Source(c)] = Absent, ![o.key] = Stored(o.val)]
    [] o.kind = "insert" -> [own[c] EXCEPT ![o.key] = Stored(o.val)]

\* The statement.  A key that another row has is refused; one that a transaction has
\* written is waited for.  A trigger may skip the row: no row is affected.
Write(c) ==
  /\ At(c, "write")
  /\ locks[Target(c)] \in {None, c}
  /\ IF \/ trig = "skip"
        \/ op[c].kind # "delete" /\ Current(c)[Target(c)] # Absent /\ (op[c].kind = "insert" \/ Target(c) # Source(c))
     THEN EndSession(c, IF trig = "skip" THEN "mismatch" ELSE "duplicate")
     ELSE /\ own' = [own EXCEPT ![c] = Change(c)]
          /\ locks' = [locks EXCEPT ![Target(c)] = c]
          /\ Goto(c, "reread")
          /\ UNCHANGED <<dialect, table, meta, op, snap, view, cur, open, result, applied, ops, others>>

\* lookup() by the new key, without a lock.
Reread(c) ==
  /\ At(c, "reread")
  /\ cur' = [cur EXCEPT ![c] = [NoRow EXCEPT !.key = Target(c), !.val = Sees(c)[Target(c)]]]
  /\ Goto(c, "after")
  /\ UNCHANGED <<dialect, table, locks, meta, op, snap, view, own, open, result, applied, ops, others>>

\* The descriptor once more, and the written values against the stored ones.
WriteAfter(c) ==
  /\ At(c, "after") /\ Writes(op[c])
  /\ IF Base(c).desc # snap[c].desc THEN EndSession(c, "schema changed")
     ELSE IF cur[c].val # (IF op[c].kind = "delete" THEN Absent ELSE op[c].val) THEN EndSession(c, "mismatch")
     ELSE /\ Goto(c, "commit")
          /\ UNCHANGED <<dialect, table, locks, meta, op, snap, view, cur, own, open, result, applied, ops, others>>

\* COMMIT: it succeeds, a constraint rejects it, or its outcome is not known.  SQLite
\* then rolls back what the commit left open.
Commit(c) ==
  /\ At(c, "commit")
  /\ \/ Finished(c, "ok", own[c], FALSE)
     \/ Finished(c, "commit rejected", NoChange, FALSE)
     \/ Finished(c, "commit unknown", NoChange, FALSE)
     \/ Finished(c, "commit unknown", own[c], FALSE)
  /\ UNCHANGED snap

-----------------------------------------------------------------------------
(* Other connections, one statement each.                                  *)

SqliteWriter == dialect = "sqlite" /\ \E c \in Clients : InWrite(c)

OtherRow(k, v) ==
  /\ others < MaxOther /\ ~SqliteWriter
  /\ locks[k] = None /\ rows[k] # v
  /\ rows' = [rows EXCEPT ![k] = v]
  /\ others' = others + 1
  /\ UNCHANGED <<dialect, desc, trig, locks, meta, client, open>>

\* A change of the table waits until no transaction holds its metadata.
OtherTable(d, t) ==
  /\ others < MaxOther /\ ~SqliteWriter /\ meta = {}
  /\ <<d, t>> # <<desc, trig>>
  /\ desc' = d /\ trig' = t
  /\ others' = others + 1
  /\ UNCHANGED <<dialect, rows, locks, meta, client, open>>

Operations(c) ==
  {[kind |-> "page"]}
  \cup (IF snap[c] = NoRow THEN {} ELSE
        {[kind |-> "delete"]}
        \cup {[kind |-> "update", key |-> k, val |-> v] : k \in Keys, v \in Vals}
        \cup {[kind |-> "insert", key |-> k, val |-> v, generated |-> g] : k \in Keys, v \in Vals, g \in BOOLEAN})

Next ==
  \/ \E c \in Clients :
       \/ \E o \in Operations(c) : Begin(c, o)
       \/ StatementFails(c)
       \/ PageDescribe(c) \/ CollectNothing(c) \/ PageAfter(c)
       \/ \E k \in Keys : Collect(c, k)
       \/ Lookup(c) \/ CheckOriginal(c)
       \/ Reserve(c) \/ Verify(c)
       \/ Write(c) \/ Reread(c) \/ WriteAfter(c) \/ Commit(c)
  \/ \E k \in Keys, v \in Vals \cup {Absent} : OtherRow(k, v)
  \/ \E d \in {0, 1}, t \in {None, "alter", "skip"} : OtherTable(d, t)

Spec == Init /\ [][Next]_vars

-----------------------------------------------------------------------------
(* Properties.                                                             *)

\* Types of the table and of the clients.
TypeOK ==
  /\ \A c \in Clients : InWrite(c) \/ own[c] = NoChange
  /\ desc \in {0, 1} /\ trig \in {None, "alter", "skip"}
  /\ rows \in [Keys -> Vals \cup {Absent}]
  /\ locks \in [Keys -> Clients \cup {None}]
  /\ meta \subseteq Clients
  /\ pc \in [Clients -> {"idle", "describe", "collect", "after", "lookup", "check", "reserve", "verify", "write", "reread", "commit"}]
  /\ open \in BOOLEAN /\ open => dialect = "sqlite"

\* Session.collect() and tablePage(): the cells of a page, and so of a snapshot, were
\* read from the table as its descriptor describes it, whatever happens to the table
\* between the statements of the read.
PageOfOneTable == \A c \in Clients : snap[c].desc = snap[c].at

Committed(c) == At(c, "commit") /\ pc'[c] = "idle" /\ applied'[c]

\* updateRow() and deleteRow() ("locks the row by its original keys, compares it with
\* the snapshot and writes"): what a committed change replaces is the row of its
\* snapshot, in the table of its snapshot; no change of another connection is lost.
ReplacesSnapshotStep ==
  \A c \in Clients :
    Committed(c) /\ op[c].kind \in {"update", "delete"} => rows[Source(c)] = snap[c].val /\ desc = snap[c].desc
ReplacesSnapshot == [][ReplacesSnapshotStep]_vars

\* The row that a change returns is the row that the commit stores, also when a
\* trigger changes values; on MySQL, where triggers are refused, none runs.
ReturnsStoredStep ==
  \A c \in Clients :
    Committed(c) => /\ rows'[Target(c)] = cur[c].val
                    /\ op[c].kind # "delete" => cur[c].val = op[c].val
                    /\ dialect = "mysql" => trig = None
ReturnsStored == [][ReturnsStoredStep]_vars

\* write() and endSession(): an operation that reports success changed the database,
\* one that reports any failure but an unknown commit did not, and no operation
\* leaves a transaction on the SQLite connection.
OutcomeTrue ==
  \A c \in Clients : At(c, "idle") =>
    /\ result[c] = "ok" => applied[c]
    /\ result[c] \notin {"ok", "commit unknown"} => ~applied[c]
    /\ dialect = "sqlite" /\ (\A d \in Clients : At(d, "idle")) => ~open
=============================================================================
