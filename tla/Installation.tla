---------------------------- MODULE Installation ----------------------------
(***************************************************************************)
(* Installing a document set and adding its missing tables, columns and    *)
(* indexes (SchemaUtils of utils.ts, add_tables_and_columns.ts, compare.ts *)
(* and externalDifferences() of dbspec/index.ts).  Several processes call  *)
(* the operations on one database while another connection may change a    *)
(* table by hand.  PostgreSQL and SQLite work in a transaction, of their   *)
(* own or of the application; MySQL commits every statement; SQLite adds   *)
(* with the foreign keys of its connection off.                            *)
(***************************************************************************)
EXTENDS Integers, Sequences, FiniteSets, SequencesExt, TLC

CONSTANTS
  Dialects,      \* of "mysql", "postgres" and "sqlite"
  Procs,         \* the processes, each with a connection of its own
  Sets,          \* the document sets that they may install or add
  Order,         \* the table names of every set, in name order
  TargetOf(_),   \* the schema text of a set: its own tables by name
  UsedOf(_),     \* the tables that it uses from external documents, by name
  Starts,        \* the databases to start from, tables by name
  ByHand(_, _),  \* what another connection may make of a table, given its name
  MaxByHand,     \* bound on such changes
  MaxCalls       \* bound on the calls

(* A table: its columns in order, its primary key, its unique keys,        *)
(* indexes, foreign keys and checks by kind and name, its immutable and    *)
(* audit settings, and whether introspection meets an object in it that it *)
(* cannot read.  A set of tables is a function from their names.           *)
Gone == [columns |-> <<>>, key |-> <<>>, objects |-> {}, immutable |-> FALSE, audit |-> "none", excluded |-> {}, unread |-> FALSE]

VARIABLES
  dialect,
  db,        \* the committed tables
  pc, op, target,   \* where each process is, in which operation, with which set
  joined,    \* the operation runs in a transaction that the application opened
  work,      \* the tables that its open transaction changed
  live,      \* what its last introspection read
  todo,      \* the statements it still runs
  left,      \* the tables its statements changed in the committed database
  fk, open,  \* foreign keys are on, and a transaction is open, on its connection
  outcome,   \* how its last operation ended
  registered,   \* the sets registered on its connection
  byHand,    \* the changes of the other connection
  calls      \* the calls so far

base == <<dialect, db, byHand, calls>>
vars == <<base, pc, op, target, joined, work, live, todo, left, fk, open, outcome, registered>>

Init ==
  /\ dialect \in Dialects
  /\ db \in Starts
  /\ byHand = 0 /\ calls = 0
  /\ pc = [p \in Procs |-> "idle"]
  /\ op = [p \in Procs |-> "none"]
  /\ target = [p \in Procs |-> <<>>]
  /\ joined = [p \in Procs |-> FALSE]
  /\ work = [p \in Procs |-> <<>>]
  /\ live = [p \in Procs |-> <<>>]
  /\ todo = [p \in Procs |-> <<>>]
  /\ left = [p \in Procs |-> {}]
  /\ fk = [p \in Procs |-> TRUE]
  /\ open = [p \in Procs |-> FALSE]
  /\ outcome = [p \in Procs |-> "none"]
  /\ registered = [p \in Procs |-> {}]

At(p, l) == pc[p] = l
Goto(p, l) == pc' = [pc EXCEPT ![p] = l]

-----------------------------------------------------------------------------
(* The comparison of two tables.                                           *)

Names(cs) == {cs[i].name : i \in DOMAIN cs}
Column(x, n) == CHOOSE c \in ToSet(x.columns) : c.name = n
Shared(x, y) == SelectSeq([i \in DOMAIN x.columns |-> x.columns[i].name], LAMBDA n : n \in Names(y.columns))

\* widens(): the values of the first type are values of the second.
Widens(a, b) == a = "i32" /\ b = "i64"

ColumnKinds(sc, c) ==
  (IF Widens(sc.type, c.type) \/ sc.null # c.null \/ sc.default # c.default THEN {"alter_column"} ELSE {})
    \cup (IF sc.type # c.type /\ ~Widens(sc.type, c.type) THEN {"change_column_type"} ELSE {})
    \cup (IF sc.identity # c.identity THEN {"change_column_identity"} ELSE {})

\* A faulty comparison that only compares the order of the kept columns.
ReorderedKept(s, t) == Shared(s, t) # Shared(t, s)

\* The kept columns are in another order, or a column is added before a kept one.
Reordered(s, t) ==
  \/ Shared(s, t) # Shared(t, s)
  \/ \E i, j \in DOMAIN t.columns :
       i < j /\ t.columns[i].name \notin Names(s.columns) /\ t.columns[j].name \in Names(s.columns)

\* compareObjects(): matched by kind and name; a changed one is dropped and added.
ObjectDifferences(s, t) ==
  {[kind |-> <<"drop", o.kind>>, name |-> o.name] : o \in s.objects \ t.objects}
    \cup {[kind |-> <<"add", o.kind>>, name |-> o.name] : o \in t.objects \ s.objects}

\* A faulty comparison that leaves the audit setting to the comparison of its name.
AuditOfName(x, s, t) == <<x.audit, {}>>

\* settingOf(): audit is compared on the columns that both sides have.
AuditOf(x, s, t) == <<x.audit, IF x.audit = "none" THEN {} ELSE x.excluded \cap Names(s.columns) \cap Names(t.columns)>>

SettingDifferences(s, t) ==
  LET one(kind, a, b, none) ==
        (IF a # b /\ a # none THEN {[kind |-> <<"drop", kind>>, name |-> ""]} ELSE {})
          \cup (IF a # b /\ b # none THEN {[kind |-> <<"add", kind>>, name |-> ""]} ELSE {})
  IN one("immutable", s.immutable, t.immutable, FALSE) \cup one("audit", AuditOf(s, s, t), AuditOf(t, s, t), <<"none", {}>>)

\* compareTables().
TableDifferences(s, t) ==
  {[kind |-> <<"drop", "column">>, name |-> n] : n \in Names(s.columns) \ Names(t.columns)}
    \cup {[kind |-> <<"add", "column">>, name |-> n] : n \in Names(t.columns) \ Names(s.columns)}
    \cup UNION {{[kind |-> <<k, "column">>, name |-> n] : k \in ColumnKinds(Column(s, n), Column(t, n))}
                  : n \in Names(s.columns) \cap Names(t.columns)}
    \cup (IF Reordered(s, t) THEN {[kind |-> <<"reorder", "column">>, name |-> ""]} ELSE {})
    \cup (IF s.key # t.key THEN {[kind |-> <<"change", "key">>, name |-> ""]} ELSE {})
    \cup ObjectDifferences(s, t)
    \cup SettingDifferences(s, t)

\* compareSchemas(): a table of one side only, and the differences of the others.
SchemaDifferences(now, want) ==
  {[table |-> t, kind |-> <<"create", "table">>, name |-> ""] : t \in DOMAIN want \ DOMAIN now}
    \cup UNION {{[table |-> t, kind |-> d.kind, name |-> d.name] : d \in TableDifferences(now[t], want[t])}
                  : t \in DOMAIN want \cap DOMAIN now}

\* compareSet(): the tables of the set; a table with an object that introspection
\* cannot read is a difference by itself.
Differences(now, want) ==
  LET unread == {t \in DOMAIN want \cap DOMAIN now : now[t].unread} IN
  IF unread # {}
  THEN {[table |-> t, kind |-> <<"unsupported", "">>, name |-> ""] : t \in unread}
  ELSE SchemaDifferences(now, want)

\* addTablesAndColumnsSteps(): the differences that the operation may settle.
Addable(d, want) ==
  \/ d.kind = <<"create", "table">>
  \/ d.kind = <<"add", "index">>
  \/ /\ d.kind = <<"add", "column">>
     /\ LET c == Column(want[d.table], d.name) IN ~c.identity /\ (c.null \/ c.default # "none")

\* externalDifferences(): the used tables as their external documents declare
\* them; more columns, indexes and checks are no difference.
UsedDiffer(now, used) ==
  ~\A t \in DOMAIN used :
      /\ t \in DOMAIN now
      /\ now[t].key = used[t].key
      /\ \A c \in ToSet(used[t].columns) :
           \E g \in ToSet(now[t].columns) : g.name = c.name /\ g.type = c.type /\ g.null = c.null
      /\ \A u \in used[t].objects :
           u.kind = "unique" => \E g \in now[t].objects : g.kind = "unique" /\ g.def = u.def

-----------------------------------------------------------------------------
(* The statements.                                                         *)

\* What the connection of p reads: its own changes over the committed tables.
Seen(p) == work[p] @@ db

\* PostgreSQL keeps a changed table locked until its transaction ends; SQLite
\* has one writer.
Locked(p, t) ==
  CASE dialect = "postgres" -> \E q \in Procs \ {p} : t \in DOMAIN work[q]
    [] dialect = "sqlite" -> \E q \in Procs \ {p} : open[q]
    [] OTHER -> FALSE

Bare(x) == [x EXCEPT !.objects = {}, !.immutable = FALSE, !.audit = "none", !.excluded = {}]

\* The statements of the tables in order: renderDbspecStatements() of a table,
\* and the plan steps of an addition, which SQLite makes by a rebuild.
PerTable(of) == FoldLeft(LAMBDA acc, t : IF t \in DOMAIN of THEN acc \o of[t] ELSE acc, <<>>, Order)

CreateSteps(t) == <<[do |-> "create", table |-> t, column |-> ""], [do |-> "objects", table |-> t, column |-> ""]>>

RenderedStatements(p) == PerTable([t \in DOMAIN target[p].tables |-> CreateSteps(t)])

AddingSteps(p, now) ==
  LET want(t) == target[p].tables[t]
      missing(t) == SelectSeq([i \in DOMAIN want(t).columns |-> want(t).columns[i].name], LAMBDA n : n \notin Names(now[t].columns))
      of(t) ==
        IF t \notin DOMAIN now THEN CreateSteps(t)
        ELSE IF dialect = "sqlite" /\ missing(t) # <<>> THEN <<[do |-> "rebuild", table |-> t, column |-> ""]>>
        ELSE [i \in DOMAIN missing(t) |-> [do |-> "column", table |-> t, column |-> missing(t)[i]]]
               \o (IF TableDifferences(now[t], want(t)) = {} THEN <<>> ELSE <<[do |-> "objects", table |-> t, column |-> ""]>>)
  IN PerTable([t \in DOMAIN target[p].tables |-> of(t)])

\* A faulty renderer that replaces a table which is there.
EffectReplacing(p, s) ==
  LET now == Seen(p)
      want == target[p].tables[s.table]
      has == s.table \in DOMAIN now
  IN CASE s.do = "create" -> Bare(want)
       [] ~has -> Gone
       [] s.do = "objects" ->
            IF \E o \in now[s.table].objects, n \in want.objects : o.name = n.name /\ o # n THEN Gone
            ELSE [now[s.table] EXCEPT !.objects = @ \cup want.objects, !.immutable = want.immutable,
                                      !.audit = want.audit, !.excluded = want.excluded]
       [] s.do = "column" ->
            IF s.column \in Names(now[s.table].columns) THEN Gone
            ELSE [now[s.table] EXCEPT !.columns = Append(@, Column(want, s.column))]
       [] s.do = "rebuild" -> want

\* The table that a statement leaves; Gone when the server refuses it.
Effect(p, s) ==
  LET now == Seen(p)
      want == target[p].tables[s.table]
      has == s.table \in DOMAIN now
  IN CASE s.do = "create" -> IF has THEN Gone ELSE Bare(want)
       [] ~has -> Gone
       [] s.do = "objects" ->
            IF \E o \in now[s.table].objects, n \in want.objects : o.name = n.name /\ o # n THEN Gone
            ELSE [now[s.table] EXCEPT !.objects = @ \cup want.objects, !.immutable = want.immutable,
                                      !.audit = want.audit, !.excluded = want.excluded]
       [] s.do = "column" ->
            IF s.column \in Names(now[s.table].columns) THEN Gone
            ELSE [now[s.table] EXCEPT !.columns = Append(@, Column(want, s.column))]
       [] s.do = "rebuild" -> want
-----------------------------------------------------------------------------
(* The operations.                                                         *)

\* The call ends with outcome o; a call in a transaction of the application
\* returns to it.
Ends(p, o) ==
  /\ Goto(p, IF joined[p] THEN "outer" ELSE "idle")
  /\ outcome' = [outcome EXCEPT ![p] = o]
  /\ todo' = [todo EXCEPT ![p] = <<>>]
  /\ live' = [live EXCEPT ![p] = <<>>]

\* install() or addTablesAndColumns() is called, perhaps in a transaction of the
\* application, which MySQL, and SQLite for an addition, refuse.
Call(p, o, s, tx) ==
  /\ At(p, "idle") /\ calls < MaxCalls
  /\ tx => ~open[p]
  /\ calls' = calls + 1
  /\ op' = [op EXCEPT ![p] = o]
  /\ target' = [target EXCEPT ![p] = [set |-> s, tables |-> TargetOf(s), used |-> UsedOf(s)]]
  /\ joined' = [joined EXCEPT ![p] = tx]
  /\ left' = [left EXCEPT ![p] = {}]
  /\ \/ /\ tx /\ (dialect = "mysql" \/ (dialect = "sqlite" /\ o = "add"))
        /\ Goto(p, "outer")
        /\ outcome' = [outcome EXCEPT ![p] = "config"]
     \/ /\ ~(tx /\ (dialect = "mysql" \/ (dialect = "sqlite" /\ o = "add")))
        /\ Goto(p, "begin")
        /\ outcome' = [outcome EXCEPT ![p] = "none"]
  /\ UNCHANGED <<dialect, db, byHand, work, live, todo, fk, open, registered>>

\* A faulty begin that leaves the write lock to the first statement.
BeginDeferred(p) ==
  /\ At(p, "begin")
  /\ Goto(p, "introspect")
  /\ fk' = [fk EXCEPT ![p] = @ /\ (dialect # "sqlite" \/ op[p] = "install" \/ open[p])]
  /\ open' = [open EXCEPT ![p] = dialect # "mysql"]
  /\ UNCHANGED <<base, op, target, joined, work, live, todo, left, outcome, registered>>

\* The transaction starts: SQLite takes the write lock with BEGIN IMMEDIATE, an
\* addition after PRAGMA foreign_keys = OFF, which an open transaction ignores.
Begin(p) ==
  /\ At(p, "begin")
  /\ Goto(p, "introspect")
  /\ fk' = [fk EXCEPT ![p] = @ /\ (dialect # "sqlite" \/ op[p] = "install" \/ open[p])]
  /\ \/ dialect = "mysql" /\ UNCHANGED open
     \/ dialect = "postgres" /\ open' = [open EXCEPT ![p] = TRUE]
     \/ /\ dialect = "sqlite"
        /\ \A q \in Procs : ~open[q]
        /\ open' = [open EXCEPT ![p] = TRUE]
  /\ UNCHANGED <<base, op, target, joined, work, live, todo, left, outcome, registered>>

\* SQLite has no second transaction on a connection whose COMMIT failed.
BeginFails(p) ==
  /\ At(p, "begin") /\ dialect = "sqlite" /\ open[p]
  /\ Goto(p, "idle")
  /\ joined' = [joined EXCEPT ![p] = FALSE]
  /\ outcome' = [outcome EXCEPT ![p] = "busy"]
  /\ UNCHANGED <<base, op, target, work, live, todo, left, fk, open, registered>>

Fails(p, o) == Goto(p, "failed") /\ outcome' = [outcome EXCEPT ![p] = o] /\ UNCHANGED <<live, todo>>

\* introspectSet() and what follows from it: install() creates every table or
\* none, addTablesAndColumns() what is missing.
Introspect(p) ==
  /\ At(p, "introspect")
  /\ LET now == Seen(p)
         want == target[p].tables
         found == DOMAIN want \cap DOMAIN now
         differences == Differences(now, want)
         plan(steps) ==
           /\ Goto(p, "run")
           /\ live' = [live EXCEPT ![p] = now]
           /\ todo' = [todo EXCEPT ![p] = steps]
           /\ UNCHANGED outcome
     IN \/ UsedDiffer(now, target[p].used) /\ Fails(p, "config")
        \/ /\ ~UsedDiffer(now, target[p].used) /\ op[p] = "install"
           /\ \/ found # {} /\ found # DOMAIN want /\ Fails(p, "config")
              \/ found = DOMAIN want /\ plan(<<>>)
              \/ found = {} /\ plan(RenderedStatements(p))
        \/ /\ ~UsedDiffer(now, target[p].used) /\ op[p] = "add"
           /\ \/ (\E d \in differences : ~Addable(d, want)) /\ Fails(p, "differs")
              \/ (\A d \in differences : Addable(d, want)) /\ plan(AddingSteps(p, now))
  /\ UNCHANGED <<base, op, target, joined, work, left, fk, open, registered>>

\* A faulty run that sends the statement outside the transaction.
StatementOutside(p) ==
  /\ At(p, "run") /\ todo[p] # <<>>
  /\ LET s == Head(todo[p]) IN
       /\ ~Locked(p, s.table)
       /\ Effect(p, s) # Gone
       /\ db' = (s.table :> Effect(p, s)) @@ db
       /\ left' = [left EXCEPT ![p] = @ \cup {s.table}]
  /\ todo' = [todo EXCEPT ![p] = Tail(@)]
  /\ live' = [live EXCEPT ![p] = <<>>]
  /\ UNCHANGED <<dialect, byHand, calls, pc, op, target, joined, work, fk, open, outcome, registered>>

\* One statement runs.  MySQL commits it; the others keep it in the transaction.
Statement(p) ==
  /\ At(p, "run") /\ todo[p] # <<>>
  /\ LET s == Head(todo[p])
         x == Effect(p, s)
     IN /\ ~Locked(p, s.table)
        /\ x # Gone
        /\ \/ /\ dialect = "mysql"
              /\ db' = (s.table :> x) @@ db
              /\ left' = [left EXCEPT ![p] = @ \cup {s.table}]
              /\ UNCHANGED work
           \/ /\ dialect # "mysql"
              /\ work' = [work EXCEPT ![p] = (s.table :> x) @@ @]
              /\ UNCHANGED <<db, left>>
  /\ todo' = [todo EXCEPT ![p] = Tail(@)]
  /\ live' = [live EXCEPT ![p] = <<>>]
  /\ UNCHANGED <<dialect, byHand, calls, pc, op, target, joined, fk, open, outcome, registered>>

\* The server refuses a statement, or it fails for a reason of its own.
StatementFails(p) ==
  /\ At(p, "run") /\ todo[p] # <<>>
  /\ ~Locked(p, Head(todo[p]).table)
  /\ Fails(p, "error")
  /\ UNCHANGED <<base, op, target, joined, work, left, fk, open, registered>>

\* A faulty check that takes what the statements should have made for the database.
VerifyPlanned(p) ==
  /\ At(p, "run") /\ todo[p] = <<>>
  /\ LET now == IF live[p] = <<>> THEN target[p].tables ELSE live[p]
         same == Differences(now, target[p].tables) = {}
     IN \/ ~same /\ Fails(p, "unverified")
        \/ same /\ Goto(p, "commit") /\ live' = [live EXCEPT ![p] = now] /\ UNCHANGED <<todo, outcome>>
  /\ UNCHANGED <<base, op, target, joined, work, left, fk, open, registered>>

\* The database is read again after statements and compared with the set.
Verify(p) ==
  /\ At(p, "run") /\ todo[p] = <<>>
  /\ LET now == IF live[p] = <<>> THEN Seen(p) ELSE live[p]
         same == Differences(now, target[p].tables) = {}
     IN \/ ~same /\ Fails(p, "unverified")
        \/ same /\ Goto(p, "commit") /\ live' = [live EXCEPT ![p] = now] /\ UNCHANGED <<todo, outcome>>
  /\ UNCHANGED <<base, op, target, joined, work, left, fk, open, registered>>

\* registerSet(), which only install() calls.
Registers(p) ==
  registered' = [registered EXCEPT ![p] = IF op[p] = "install" THEN @ \cup {target[p].set} ELSE @]

\* What COMMIT makes of the changes of p.
Keep(p) ==
  /\ db' = work[p] @@ db
  /\ left' = [left EXCEPT ![p] = @ \cup DOMAIN work[p]]
  /\ work' = [work EXCEPT ![p] = <<>>]
  /\ open' = [open EXCEPT ![p] = FALSE]

Discard(p) ==
  /\ work' = [work EXCEPT ![p] = <<>>]
  /\ open' = [open EXCEPT ![p] = FALSE]
  /\ UNCHANGED <<db, left>>

\* Adding on SQLite puts the foreign keys back before it ends.
Restores(p) == dialect = "sqlite" /\ op[p] = "add"

\* The verified call ends its transaction.  In a transaction of the application
\* there is none to end, nor on MySQL.
Commit(p) ==
  /\ At(p, "commit")
  /\ \/ /\ joined[p] \/ dialect = "mysql"
        /\ Ends(p, "ok") /\ Registers(p)
        /\ UNCHANGED <<db, left, work, open>>
     \/ /\ ~joined[p] /\ dialect # "mysql" /\ ~Restores(p)
        /\ Keep(p) /\ Ends(p, "ok") /\ Registers(p)
     \/ /\ Restores(p)
        /\ Keep(p) /\ Goto(p, "restore") /\ outcome' = [outcome EXCEPT ![p] = "ok"]
        /\ UNCHANGED <<live, todo, registered>>
  /\ UNCHANGED <<dialect, byHand, calls, op, target, joined, fk>>

\* COMMIT fails.  SQLite finds the database busy and keeps the transaction open:
\* finish() rolls it back, withoutForeignKeys() does not.  PostgreSQL may have
\* committed when the connection is lost.
CommitFails(p) ==
  /\ At(p, "commit") /\ ~joined[p]
  /\ \/ /\ dialect = "postgres"
        /\ Keep(p) /\ Ends(p, "unknown")
     \/ /\ dialect # "mysql" /\ ~Restores(p)
        /\ Discard(p) /\ Ends(p, "error")
     \/ /\ Restores(p)
        /\ Goto(p, "restore") /\ outcome' = [outcome EXCEPT ![p] = "busy"]
        /\ UNCHANGED <<db, left, work, open, live, todo>>
  /\ UNCHANGED <<dialect, byHand, calls, op, target, joined, fk, registered>>

\* A faulty withoutForeignKeys() that ends a failed call without the last PRAGMA.
RollbackAtOnce(p) ==
  /\ At(p, "failed")
  /\ \/ joined[p] /\ Ends(p, outcome[p]) /\ UNCHANGED <<db, left, work, open>>
     \/ ~joined[p] /\ Discard(p) /\ Ends(p, outcome[p])
  /\ UNCHANGED <<dialect, byHand, calls, op, target, joined, fk, registered>>

\* The failed call rolls its own transaction back.
Rollback(p) ==
  /\ At(p, "failed")
  /\ \/ /\ joined[p] \/ dialect = "mysql"
        /\ Ends(p, outcome[p])
        /\ UNCHANGED <<db, left, work, open>>
     \/ /\ ~joined[p] /\ dialect # "mysql" /\ ~Restores(p)
        /\ Discard(p) /\ Ends(p, outcome[p])
     \/ /\ Restores(p)
        /\ Discard(p) /\ Goto(p, "restore")
        /\ UNCHANGED <<live, todo, outcome>>
  /\ UNCHANGED <<dialect, byHand, calls, op, target, joined, fk, registered>>

\* PRAGMA foreign_keys = ON, which changes nothing in an open transaction.
Restore(p) ==
  /\ At(p, "restore")
  /\ fk' = [fk EXCEPT ![p] = @ \/ ~open[p]]
  /\ Ends(p, outcome[p])
  /\ UNCHANGED <<base, op, target, joined, work, left, open, registered>>

\* The application ends its own transaction: an exception rolls it back, unless
\* the application caught it.  PostgreSQL rolls back after a failed statement.
EndOuter(p) ==
  /\ At(p, "outer")
  /\ Goto(p, "idle")
  /\ joined' = [joined EXCEPT ![p] = FALSE]
  /\ \/ /\ outcome[p] # "error" \/ dialect # "postgres"
        /\ Keep(p)
        /\ outcome' = [outcome EXCEPT ![p] = IF @ = "ok" THEN "ok" ELSE "caught"]
     \/ /\ Discard(p)
        /\ outcome' = [outcome EXCEPT ![p] = IF @ = "ok" THEN "undone" ELSE @]
  /\ UNCHANGED <<dialect, byHand, calls, op, target, live, todo, fk, registered>>

\* Another connection changes a table.
ChangeByHand(t) ==
  /\ byHand < MaxByHand
  /\ byHand' = byHand + 1
  /\ ~\E p \in Procs : Locked(p, t) \/ (dialect = "postgres" /\ t \in DOMAIN work[p]) \/ (dialect = "sqlite" /\ open[p])
  /\ \E x \in ByHand(t, db) :
       db' = IF x = Gone THEN [u \in DOMAIN db \ {t} |-> db[u]] ELSE (t :> x) @@ db
  /\ UNCHANGED <<dialect, calls, pc, op, target, joined, work, live, todo, left, fk, open, outcome, registered>>

Next ==
  \/ \E p \in Procs :
       \/ \E o \in {"install", "add"}, s \in Sets, tx \in BOOLEAN : Call(p, o, s, tx)
       \/ Begin(p)
       \/ BeginFails(p)
       \/ Introspect(p)
       \/ Statement(p)
       \/ StatementFails(p)
       \/ Verify(p)
       \/ Commit(p)
       \/ CommitFails(p)
       \/ Rollback(p)
       \/ Restore(p)
       \/ EndOuter(p)
  \/ \E t \in ToSet(Order) : ChangeByHand(t)

Spec == Init /\ [][Next]_vars

-----------------------------------------------------------------------------
(* Properties.                                                             *)

\* Types of the calls; only one connection of SQLite has its transaction open.
TypeOK ==
  /\ dialect = "sqlite" => \A p, q \in Procs : open[p] /\ open[q] => p = q
  /\ dialect = "postgres" => \A p, q \in Procs : p # q => DOMAIN work[p] \cap DOMAIN work[q] = {}
  /\ pc \in [Procs -> {"idle", "begin", "introspect", "run", "commit", "failed", "restore", "outer"}]
  /\ outcome \in [Procs -> {"none", "ok", "config", "differs", "error", "unverified", "busy", "unknown", "caught", "undone"}]
  /\ \A p \in Procs : fk[p] \in BOOLEAN /\ open[p] \in BOOLEAN /\ registered[p] \subseteq Sets

\* utils.ts:257: "PostgreSQL and SQLite apply in an ongoing or a new transaction,
\* so a failed install leaves nothing behind"; an application that catches the
\* failure inside its own transaction and commits keeps what was done before it.
FailedLeavesNothing ==
  \A p \in Procs :
    dialect # "mysql" /\ op[p] = "install" /\ outcome[p] \in {"config", "error", "unverified"} => left[p] = {}

\* An installation that created the tables ends with the set in the database, and
\* so does an addition: where the statements stay in a transaction, no statement
\* of another process or another connection comes between the check and COMMIT.
CreatedIsSetStep ==
  \A p \in Procs :
    dialect # "mysql" /\ left[p] = {} /\ left'[p] # {} /\ outcome'[p] = "ok" =>
      \A t \in left'[p] : db'[t] = target[p].tables[t]
CreatedIsSet == [][CreatedIsSetStep]_vars

\* schema.md:70: an addition "only adds".  No statement of a call takes a table,
\* a column or an object from the database, also when another process adds at
\* the same time.
OnlyAddsStep ==
  byHand' = byHand =>
    \A t \in DOMAIN db :
      /\ t \in DOMAIN db'
      /\ ToSet(db[t].columns) \subseteq ToSet(db'[t].columns)
      /\ db[t].objects \subseteq db'[t].objects
OnlyAdds == [][OnlyAddsStep]_vars

\* add_tables_and_columns.ts:32: "An empty list means they are the same."  The set
\* is registered, or an addition reported done, only for tables equal to the set
\* when they were read.
NoDifferenceIsSame ==
  \A p \in Procs :
    At(p, "commit") /\ live[p] # <<>> => \A t \in DOMAIN target[p].tables : live[p][t] = target[p].tables[t]

\* SCH-8, schema.md:70: when every difference can be added, the steps lead to the
\* set: a call that nobody disturbs is not refused after its statements.
UndisturbedIsVerified ==
  \A p \in Procs :
    outcome[p] = "unverified" /\ op[p] = "add" =>
      dialect # "sqlite" /\ (byHand > 0 \/ \E q \in Procs \ {p} : op[q] # "none")

\* utils.ts:36-37: the foreign keys are "turned back on".  A connection that no
\* call uses has them on and no transaction open, unless its COMMIT failed.
ForeignKeysBack ==
  \A p \in Procs : At(p, "idle") => (fk[p] /\ ~open[p]) \/ outcome[p] = "busy"

=============================================================================
