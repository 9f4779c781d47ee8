---------------------------- MODULE AuditRecord -----------------------------
(***************************************************************************)
(* The audit record of a transaction (auditRecord(), auditFor() and        *)
(* insertAudit() of database.ts).  A transaction with audit values inserts *)
(* the record right before its first write of an audited table; an update, *)
(* delete or restore does so inside a savepoint of its own, which is       *)
(* undone when the write changes no row.  The callback nests transactions, *)
(* catches what it likes, and may start a second write before the first    *)
(* has ended.  How a transaction begins and ends is Transaction's subject. *)
(***************************************************************************)
EXTENDS Integers, Sequences, FiniteSets, SequencesExt, Functions

CONSTANTS
  Callers,    \* the writes that the callback has under way at a time
  Configs,    \* connections and audit values: see Checked
  Dialects,   \* "postgres" and the others: a failed statement aborts
  MaxWrites,  \* bound on the writes and nested transactions of the callback
  MaxDepth    \* bound on the nested transactions

VARIABLES
  dialect, config,
  outcome,    \* of the transaction: "none", "CONFIG", "committed", "rolled back"
  server,     \* records: id -> values; rows: write -> record id; aborted
  marks,      \* the savepoints of the server, as [name, server]
  audit,      \* frame.audit, 0 for undefined
  values,     \* pendingAudit
  nested,     \* the open savepoint() calls, as [name, before]
  call,       \* the write of each caller, as [pc, kind, write, own, failed]
  reported,   \* the writes whose call returned, with the nesting it ran in
  ids,        \* the identity keys given, which no rollback takes back
  writes,     \* the writes and nested transactions started
  caught      \* a failed insert or a failed release was caught

vars == <<dialect, config, outcome, server, marks, audit, values, nested, call, reported, ids, writes, caught>>

None == 0
NoCall == [pc |-> "out", kind |-> "insert", write |-> 0, own |-> FALSE, failed |-> FALSE]
Nothing == [records |-> <<>>, rows |-> <<>>, aborted |-> FALSE]

Init ==
  /\ dialect \in Dialects
  /\ config \in Configs
  /\ outcome = "none"
  /\ server = Nothing /\ marks = <<>>
  /\ audit = None /\ values = <<>>
  /\ nested = <<>>
  /\ call = [c \in Callers |-> NoCall]
  /\ reported = {}
  /\ ids = 0 /\ writes = 0
  /\ caught = FALSE

\* auditRecord(): the values of the source and of the transaction, the latter
\* first.
Merged(c) == c.values @@ c.source

\* The record table is the one that every audited table of the connection names,
\* a table of a registered set with a key of one column; its values are columns
\* of it, at least one.
Checked(c) ==
  /\ c.hasSource
  /\ \E t \in c.tables : c.tables = {t} /\ t \in c.owned /\ c.keyColumns = 1
  /\ DOMAIN Merged(c) \subseteq c.columns
  /\ Merged(c) # <<>>

\* transaction() with audit values: nothing is sent when they are refused.
Begin ==
  /\ outcome = "none" /\ values = <<>>
  /\ \/ Checked(config) /\ values' = Merged(config) /\ UNCHANGED outcome
     \/ ~Checked(config) /\ outcome' = "CONFIG" /\ UNCHANGED values
  /\ UNCHANGED <<dialect, config, server, marks, audit, nested, call, reported, ids, writes, caught>>

Running == outcome = "none" /\ values # <<>>

-----------------------------------------------------------------------------
(* Statements: each takes effect or fails, and a failed one aborts a       *)
(* PostgreSQL transaction until a savepoint is rolled back to.             *)

Fails == server' = [server EXCEPT !.aborted = dialect = "postgres"] /\ UNCHANGED marks

Save(name) == ~server.aborted /\ marks' = Append(marks, [name |-> name, server |-> server]) /\ UNCHANGED server

Newest(name) == CHOOSE k \in DOMAIN marks : marks[k].name = name /\ \A m \in DOMAIN marks : marks[m].name = name => m <= k
Holds(name) == \E k \in DOMAIN marks : marks[k].name = name

Release(name) == Holds(name) /\ ~server.aborted /\ marks' = SubSeq(marks, 1, Newest(name) - 1) /\ UNCHANGED server

\* rollback_to and release of one savepoint.
Undo(name) ==
  /\ Holds(name)
  /\ marks' = SubSeq(marks, 1, Newest(name) - 1)
  /\ server' = marks[Newest(name)].server

-----------------------------------------------------------------------------
(* One write of an audited table.                                          *)

Guard(c) == call[c].kind # "insert"
To(c, pc) == call' = [call EXCEPT ![c].pc = pc]
Idle == \A c \in Callers : call[c].pc = "out"

\* write(): the record is needed when the transaction has not inserted it.
Write(c, kind) ==
  /\ Running /\ call[c].pc = "out" /\ writes < MaxWrites
  /\ writes' = writes + 1
  /\ call' = [call EXCEPT ![c] = [pc |-> IF audit # None THEN "write" ELSE IF kind = "insert" THEN "record" ELSE "savepoint",
                                  kind |-> kind, write |-> writes', own |-> FALSE, failed |-> FALSE]]
  /\ UNCHANGED <<dialect, config, outcome, server, marks, audit, values, nested, reported, ids, caught>>

\* The call ends; one that returned is reported.
Ended(c, failed) ==
  /\ call' = [call EXCEPT ![c].pc = IF failed THEN "threw" ELSE "out"]
  /\ reported' = IF failed THEN reported ELSE reported \cup {[write |-> call[c].write, depth |-> Len(nested)]}

Savepoint(c) ==
  /\ call[c].pc = "savepoint"
  /\ \/ Save("orm_audit") /\ call' = [call EXCEPT ![c].pc = "record", ![c].own = TRUE] /\ UNCHANGED reported
     \/ Fails /\ Ended(c, TRUE)
  /\ UNCHANGED <<dialect, config, outcome, audit, values, nested, ids, writes, caught>>

\* insertAudit(): the record's key is the identity it was given.
InsertAudit(c) ==
  /\ call[c].pc = "record"
  /\ \/ /\ ~server.aborted
        /\ ids' = ids + 1
        /\ server' = [server EXCEPT !.records = @ @@ [i \in {ids'} |-> values]]
        /\ audit' = ids'
        /\ To(c, "write") /\ UNCHANGED <<marks, reported>>
     \/ /\ Fails
        /\ UNCHANGED ids
        /\ \/ Guard(c) /\ audit' = None /\ call' = [call EXCEPT ![c].pc = "undo", ![c].failed = TRUE] /\ UNCHANGED reported
           \/ ~Guard(c) /\ Ended(c, TRUE) /\ UNCHANGED audit
  /\ UNCHANGED <<dialect, config, outcome, values, nested, writes, caught>>

\* The statement of the write: it changes rows, matches none, or fails; a failed
\* one and one that matched no row give the record back.
Statement(c) ==
  /\ call[c].pc = "write"
  /\ \/ /\ ~server.aborted /\ audit # None
        /\ server' = [server EXCEPT !.rows = @ @@ [w \in {call[c].write} |-> audit]]
        /\ \/ call[c].own /\ To(c, "keep") /\ UNCHANGED reported
           \/ ~call[c].own /\ Ended(c, FALSE)
        /\ UNCHANGED <<audit, marks>>
     \/ /\ ~server.aborted /\ Guard(c)
        /\ UNCHANGED <<server, marks>>
        /\ \/ call[c].own /\ To(c, "undo") /\ audit' = None /\ UNCHANGED reported
           \/ ~call[c].own /\ Ended(c, FALSE) /\ UNCHANGED audit
     \/ /\ Fails
        /\ \/ call[c].own /\ call' = [call EXCEPT ![c].pc = "undo", ![c].failed = TRUE] /\ audit' = None /\ UNCHANGED reported
           \/ ~call[c].own /\ Ended(c, TRUE) /\ UNCHANGED audit
  /\ UNCHANGED <<dialect, config, outcome, values, nested, ids, writes, caught>>

\* A faulty settle() that releases the savepoint of a write that matched no row.
SettleReleasing(c) ==
  /\ call[c].pc \in {"keep", "undo"}
  /\ Release("orm_audit")
  /\ Ended(c, call[c].failed)
  /\ UNCHANGED <<dialect, config, outcome, audit, values, nested, ids, writes, caught>>

\* settle(): RELEASE after a write that changed rows, ROLLBACK TO and RELEASE
\* after any other.
Settle(c) ==
  /\ \/ call[c].pc = "keep" /\ Release("orm_audit") /\ Ended(c, FALSE)
     \/ call[c].pc = "undo" /\ Undo("orm_audit") /\ Ended(c, call[c].failed)
     \/ call[c].pc = "undo" /\ ~Holds("orm_audit") /\ Ended(c, TRUE) /\ UNCHANGED <<server, marks>>
  /\ UNCHANGED <<dialect, config, outcome, audit, values, nested, ids, writes, caught>>

\* The callback catches the error of a write.
Catch(c) ==
  /\ call[c].pc = "threw"
  /\ To(c, "out")
  /\ caught' = (caught \/ call[c].kind = "insert")
  /\ UNCHANGED <<dialect, config, outcome, server, marks, audit, values, nested, reported, ids, writes>>

-----------------------------------------------------------------------------
(* Nested transactions and the end.                                        *)

\* A faulty savepoint() that does not count its nesting.
NameFirst == <<"orm_sp", 1>>

Name == <<"orm_sp", Len(nested)>>

Enter ==
  /\ Running /\ Idle /\ Len(nested) < MaxDepth /\ writes < MaxWrites
  /\ writes' = writes + 1
  /\ Save(<<"orm_sp", Len(nested) + 1>>)
  /\ nested' = Append(nested, [before |-> audit])
  /\ UNCHANGED <<dialect, config, outcome, audit, values, call, reported, ids, caught>>

\* A faulty savepoint() that keeps the key of a record it undid.
LeaveKeeping(kept) == UNCHANGED audit

\* A savepoint that was not released undoes the record inserted inside it.
Leave(kept) == audit' = IF kept THEN audit ELSE Last(nested).before

\* The nested callback returns: the savepoint is released, or RELEASE fails.
Return ==
  /\ nested # <<>> /\ Idle
  /\ \/ Release(Name) /\ Leave(TRUE) /\ UNCHANGED caught
     \/ Fails /\ Leave(FALSE) /\ caught' = TRUE
  /\ nested' = Front(nested)
  /\ reported' = {[r EXCEPT !.depth = IF r.depth = Len(nested) THEN r.depth - 1 ELSE r.depth] : r \in reported}
  /\ UNCHANGED <<dialect, config, outcome, values, call, ids, writes>>

Throws == \A c \in Callers : call[c].pc \in {"out", "threw"}

\* The nested callback throws, and its caller catches that.
Throw ==
  /\ nested # <<>> /\ Throws
  /\ Undo(Name)
  /\ Leave(FALSE)
  /\ nested' = Front(nested)
  /\ call' = [c \in Callers |-> NoCall]
  /\ reported' = {r \in reported : r.depth < Len(nested)}
  /\ UNCHANGED <<dialect, config, outcome, values, ids, writes, caught>>

\* The callback returns or throws.
Commit ==
  /\ Running /\ nested = <<>> /\ Idle
  /\ ~server.aborted
  /\ outcome' = "committed"
  /\ UNCHANGED <<dialect, config, server, marks, audit, values, nested, call, reported, ids, writes, caught>>

Rollback ==
  /\ Running /\ nested = <<>> /\ Throws
  /\ outcome' = "rolled back"
  /\ server' = Nothing /\ marks' = <<>>
  /\ call' = [c \in Callers |-> NoCall]
  /\ UNCHANGED <<dialect, config, audit, values, nested, reported, ids, writes, caught>>

Next ==
  \/ Begin
  \/ \E c \in Callers :
       \/ \E kind \in {"insert", "update"} : Write(c, kind)
       \/ Savepoint(c)
       \/ InsertAudit(c)
       \/ Statement(c)
       \/ Settle(c)
       \/ Catch(c)
  \/ Enter
  \/ Return
  \/ Throw
  \/ Commit
  \/ Rollback

Spec == Init /\ [][Next]_vars

-----------------------------------------------------------------------------
(* Properties.                                                             *)

\* Types of the transaction; the identity of a record is given once.
TypeOK ==
  /\ outcome \in {"none", "CONFIG", "committed", "rolled back"}
  /\ audit \in 0..ids
  /\ DOMAIN server.records \subseteq 1..ids /\ DOMAIN server.rows \subseteq 1..writes
  /\ \A c \in Callers : call[c].pc \in {"out", "savepoint", "record", "write", "keep", "undo", "threw"}
  /\ Len(nested) <= MaxDepth /\ writes \in 0..MaxWrites

\* DBS-87, docs/spec/dbspec.md:246: "every audited row that the unit of work
\* inserts or updates refers to it": a row names a record that is there, whatever
\* savepoints were undone between the two.
RowsReferToRecord == \A w \in DOMAIN server.rows : server.rows[w] \in DOMAIN server.records

\* DBS-87: the record is "written once for each unit of work" and a unit of work
\* "that writes no audited row writes no audit record"; the record has the values
\* of the source and the transaction, and the transaction's value wins
\* (docs/spec/interfaces.md:167).  Not so when the callback catches a failed
\* insert or a RELEASE whose failure it reports.
OneRecordForRows ==
  outcome = "committed" /\ ~caught =>
    /\ Cardinality(DOMAIN server.records) = IF server.rows = <<>> THEN 0 ELSE 1
    /\ \A i \in DOMAIN server.records, x \in DOMAIN config.values : server.records[i][x] = config.values[x]

\* database.ts:1275: "a transaction rejects concurrent use".  A write whose call
\* returned, in a nesting that was not undone, is in what is committed unless it
\* matched no row: undoing the record of one write never undoes another write.
ReportedRowsStayStep ==
  \A r \in reported : r.write \in DOMAIN server.rows /\ r \in reported' => outcome' = "rolled back" \/ r.write \in DOMAIN server'.rows
ReportedRowsStay == [][ReportedRowsStayStep]_vars
=============================================================================
