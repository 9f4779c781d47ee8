--------------------------- MODULE Introspection ----------------------------
(***************************************************************************)
(* Introspection: the readers of introspect_mysql.ts, introspect_postgres  *)
(* .ts and introspect_sqlite.ts fill a catalog (introspect_catalog.ts)     *)
(* with the objects that have a dbspec definition and report the others.   *)
(* document() then writes the catalog as dbspec text and parses it: the    *)
(* objects on the rejected lines are reported and removed until the text   *)
(* parses.  ColumnForms and CheckExpression say which columns and checks   *)
(* have a definition; here an object carries the answer as its form.       *)
(*                                                                         *)
(* An object is [kind, table, name, cols, ref, form]: cols are the columns *)
(* it names, in order, and ref the table it refers to with its columns.    *)
(***************************************************************************)
EXTENDS Integers, Sequences, FiniteSets, SequencesExt

CONSTANTS
  Dialects,
  Databases(_),   \* the databases of a dialect, sets of objects
  AuditColumn,    \* the column that the audit triggers read with OLD
  MaxPasses       \* bound on the passes of document()

VARIABLES
  pc,         \* "read", "parse" or "done"
  dialect,
  db,         \* the objects of the database
  doc,        \* the objects of the catalog; a setting has the kind "trigger"
  reported,   \* the unsupported objects
  again,      \* the objects that report() was given more than once
  passes

vars == <<pc, dialect, db, doc, reported, again, passes>>

Id(o) == [kind |-> o.kind, table |-> o.table, name |-> o.name]
Reported(kind, o) == [kind |-> kind, table |-> o.table, name |-> o.name]
Named(o) == <<o.kind, o.table, o.name>>
Columns(o) == Range(o.cols)

Of(objects, kind) == {o \in objects : o.kind = kind}
In(objects, t) == {o \in objects : o.table = t}

\* What a reader takes: an object with a definition, whose line parse() may refuse.
Readable(o) == o.form \in {"plain", "refused"}

\* A read is what it adds to the catalog, what it reports and what it reports again.
Outcome(objects, reports) == [objects |-> objects, reports |-> reports, again |-> {}]
Nothing == Outcome({}, {})
All(reads) ==
  LET reports == {<<i, x>> : i \in DOMAIN reads, x \in UNION {reads[j].reports : j \in DOMAIN reads}}
      made == {m \in reports : m[2] \in reads[m[1]].reports} IN
  [objects |-> UNION {reads[i].objects : i \in DOMAIN reads},
   reports |-> {m[2] : m \in made},
   again |-> UNION {reads[i].again : i \in DOMAIN reads}
             \cup {m[2] : m \in {x \in made : \E y \in made : y[2] = x[2] /\ y[1] # x[1]}}]

\* The objects of a kind of the tables that are read: the good ones, those with a
\* definition, are added, the others are reported under the given kind.
Sorted(objects, tables, good, kind) ==
  LET own == {o \in objects : o.table \in tables} IN
  Outcome(own \cap good, {Reported(kind, o) : o \in own \ good})

ReadableOf(kind) == {o \in Of(db, kind) : Readable(o)}

-----------------------------------------------------------------------------
(* The readers.                                                            *)

\* The tables query.  SQLite reports a table that it cannot read as a table.
ReadTables ==
  LET tables == Of(db, "table")
      KindOf(o) == IF o.form \in {"view", "partition"} THEN o.form ELSE "table" IN
  Outcome({o \in tables : Readable(o)}, {Reported(KindOf(o), o) : o \in {x \in tables : ~Readable(x)}})

TablesRead == {o.table : o \in ReadTables.objects}

\* The renderer CHECK of a column that is enforced and equals the renderer output.
OwnCheck(o) == \E k \in Of(db, "check") : k.table = o.table /\ k.cols = <<o.name>> /\ k.form = "renderer"

\* A faulty dropColumn() that does not report the column.
ReadColumnsSilent ==
  LET own == {o \in Of(db, "column") : o.table \in TablesRead} IN
  Outcome({o \in own : Readable(o) \/ (o.form = "checked" /\ OwnCheck(o))},
          {Id(o) : o \in {x \in own : ~Readable(x) /\ x.form # "checked"}})

\* The columns query, with the columns whose type turns out to need a CHECK that
\* was not found dropped again.
ReadColumns ==
  LET good == {o \in Of(db, "column") : Readable(o) \/ (o.form = "checked" /\ OwnCheck(o))} IN
  Sorted(Of(db, "column"), TablesRead, good, "column")

\* The columns that a renderer CHECK can belong to.  SQLite also takes the CHECK of
\* a column that it then reports for its default.
Candidate(o) == Readable(o) \/ o.form = "checked" \/ (dialect = "sqlite" /\ o.form = "default")

\* Primary keys, unique keys and indexes.  MySQL and SQLite read all of them from
\* their indexes, PostgreSQL the keys from its constraints and SQLite the UNIQUE
\* items from the text of the table.
ReadKeys ==
  LET Keys(kind) == Sorted(Of(db, kind), TablesRead, ReadableOf(kind), IF dialect = "postgres" THEN "unique" ELSE "index") IN
  All(<<Keys("primary"), Sorted(Of(db, "index"), TablesRead, ReadableOf("index"), "index"),
        IF dialect = "sqlite" THEN Sorted(Of(db, "unique"), TablesRead, ReadableOf("unique"), "unique") ELSE Keys("unique")>>)

\* One catalog row per column of a foreign key, by table and name.
ForeignKeyRows ==
  FlattenSeq([i \in 1..Cardinality(Of(db, "foreign_key")) |->
                LET f == SetToSeq(Of(db, "foreign_key"))[i] IN
                [j \in 1..Len(f.cols) |-> [key |-> f, col |-> f.cols[j]]]])

NoKey == [kind |-> "", table |-> "", name |-> "", cols |-> <<>>, ref |-> [table |-> "", cols |-> <<>>], form |-> ""]

\* A faulty loop that reports an unsupported key with each of its rows.
ForeignKeyRowRepeated(s, r) ==
  LET ended == s.current # NoKey /\ Id(s.current) # Id(r.key)
      t == IF ended THEN [s EXCEPT !.current = NoKey, !.read = All(<<@, Outcome({s.current}, {})>>)] ELSE s IN
  IF t.current # NoKey THEN [t EXCEPT !.current.cols = Append(@, r.col)]
  ELSE IF r.key.table \notin TablesRead THEN t
  ELSE IF r.key.form = "bad" THEN [t EXCEPT !.read = All(<<@, Outcome({}, {Id(r.key)})>>)]
  ELSE [t EXCEPT !.current = [r.key EXCEPT !.cols = <<r.col>>]]

\* readForeignKeys() of MySQL: a key is gathered from its rows, and the rows that
\* remain of a reported key are skipped.
ForeignKeyRow(s, r) ==
  LET ended == s.current # NoKey /\ Id(s.current) # Id(r.key)
      t == IF ended THEN [s EXCEPT !.current = NoKey, !.read = All(<<@, Outcome({s.current}, {})>>)] ELSE s IN
  IF t.skipped = Id(r.key) THEN t
  ELSE IF t.current # NoKey THEN [t EXCEPT !.skipped = Id(NoKey), !.current.cols = Append(@, r.col)]
  ELSE IF r.key.table \notin TablesRead THEN [t EXCEPT !.skipped = Id(NoKey)]
  ELSE IF r.key.form = "bad" THEN [t EXCEPT !.read = All(<<@, Outcome({}, {Id(r.key)})>>), !.skipped = Id(r.key)]
  ELSE [t EXCEPT !.skipped = Id(NoKey), !.current = [r.key EXCEPT !.cols = <<r.col>>]]

\* A key whose target is in another schema is reported by PostgreSQL and SQLite;
\* MySQL reads the name of the target only.
ReadForeignKeys ==
  IF dialect = "mysql"
  THEN LET end == FoldLeft(ForeignKeyRow, [current |-> NoKey, skipped |-> Id(NoKey), read |-> Nothing], ForeignKeyRows) IN
       All(<<end.read, Outcome({end.current} \ {NoKey}, {})>>)
  ELSE Sorted(Of(db, "foreign_key"), TablesRead, ReadableOf("foreign_key"), "foreign_key")

\* The renderer CHECK of a column belongs to the column; another check is read when
\* it decodes.
ReadChecks ==
  LET HasColumn(o) == \E c \in Of(db, "column") : c.table = o.table /\ <<c.name>> = o.cols /\ Candidate(c)
      good == {o \in Of(db, "check") : Readable(o) \/ (o.form = "renderer" /\ HasColumn(o))}
      all == Sorted(Of(db, "check"), TablesRead, good, "check") IN
  [all EXCEPT !.objects = {o \in @ : Readable(o)}]

-----------------------------------------------------------------------------
(* Triggers: recognizeTriggers() of introspect_trigger.ts and triggers()   *)
(* of render.ts.                                                           *)

ImmutableEvents == {"immutable_update", "immutable_delete"}
AuditEvents == {"audit_insert", "audit_update", "audit_delete"}
EventsOf(settings) ==
  (IF "immutable" \in settings THEN ImmutableEvents ELSE {}) \cup (IF "audit" \in settings THEN AuditEvents ELSE {})

\* auditOf(): the insert trigger names the recorded columns, the audit column among
\* them, and one foreign key of the audit column names the audit record table.
AuditRecognized(t, list, keys) ==
  LET insert == {g \in list : g.name = "audit_insert"} IN
  /\ insert # {}
  /\ \E g \in list : g.name = "audit_update"
  /\ \A g \in insert : AuditColumn \in Columns(g)
  /\ Cardinality({f \in keys : f.table = t /\ f.cols = <<AuditColumn>>}) = 1

\* The settings whose names are among the triggers of table t.
RecognizedSettings(t, list, keys) ==
  {s \in {"immutable", "audit"} :
     \/ s = "immutable" /\ \E g \in list : g.name \in ImmutableEvents
     \/ s = "audit" /\ AuditRecognized(t, list, keys)}

\* A faulty comparison that does not look for triggers beyond the rendered ones.
MatchesRenderedWithin(list, settings, columns) ==
  /\ settings # {}
  /\ \A g \in list : g.name \in EventsOf(settings) => g.form = "plain"
  /\ EventsOf(settings) \subseteq {g.name : g \in list}

\* The triggers are the renderer output of the settings: the same names, the same
\* statements, and every recorded column among the columns of the catalog.
MatchesRendered(list, settings, columns) ==
  /\ settings # {}
  /\ {g.name : g \in list} = EventsOf(settings)
  /\ \A g \in list : g.form = "plain"
  /\ \A g \in list : Columns(g) \subseteq columns

Setting(s, list) ==
  LET insert == {g \in list : g.name = "audit_insert"}
      into == IF s = "audit" THEN (CHOOSE g \in insert : TRUE).ref.table ELSE "" IN
  [kind |-> "trigger", table |-> (CHOOSE g \in list : TRUE).table, name |-> s,
   cols |-> IF s = "audit" THEN <<AuditColumn>> ELSE <<>>, ref |-> [table |-> into, cols |-> <<>>], form |-> "plain"]

RecognizeTriggers(columns, keys) ==
  LET One(t) ==
        LET list == In(Of(db, "trigger"), t)
            settings == RecognizedSettings(t, list, keys) IN
        IF t \in TablesRead /\ MatchesRendered(list, settings, {c.name : c \in In(columns, t)})
        THEN Outcome({Setting(s, list) : s \in settings}, {})
        ELSE Outcome({}, {Id(g) : g \in list}) IN
  All([t \in {o.table : o \in Of(db, "trigger")} |-> One(t)])

\* Views are tables of another kind; routines, sequences and events have no
\* definition.  A PostgreSQL function of a trigger belongs to the trigger.
ReadOthers ==
  Outcome({}, {Id(o) : o \in {x \in db : /\ x.kind \in {"routine", "sequence", "event"}
                                         /\ ~\E g \in Of(db, "trigger") : g.ref.cols = <<x.name>>}})

-----------------------------------------------------------------------------
(* The document: Catalog of introspect_catalog.ts.                         *)

ColumnsIn(objects, t) == {o.name : o \in In(Of(objects, "column"), t)}
TablesIn(objects) == {o.table : o \in Of(objects, "table")}

\* The referenced columns are the primary key or a unique key of the target.
Keyed(objects, ref) ==
  ref.table \in TablesIn(objects) /\ \E k \in In(objects, ref.table) : k.kind \in {"primary", "unique"} /\ k.cols = ref.cols

\* The rules of parse.ts that the line of an object can break: a name or a default
\* that dbspec refuses, a column or a table that is not in the document, a target
\* that is no key.
Breaks(objects, o) ==
  \/ o.form = "refused"
  \/ o.kind \in {"primary", "unique", "index", "foreign_key", "check", "trigger"} /\ ~(Columns(o) \subseteq ColumnsIn(objects, o.table))
  \/ o.kind = "foreign_key" /\ ~Keyed(objects, o.ref)
  \/ /\ o.kind = "trigger" /\ o.name = "audit"
     /\ \/ o.ref.table \notin TablesIn(objects)
        \/ ~\E f \in In(Of(objects, "foreign_key"), o.table) : f.cols = <<AuditColumn>> /\ f.ref.table \in TablesIn(objects)

\* The line of the primary key belongs to the table.
LineObject(o) == IF o.kind = "primary" THEN [kind |-> "table", table |-> o.table, name |-> o.table] ELSE Id(o)

Rejected(objects) == {LineObject(o) : o \in {x \in objects : Breaks(objects, x)}}

\* A faulty remove() that leaves the settings.
RemovedButSettings(objects, gone) ==
  {o \in objects : Id(o) \notin gone \/ o.kind = "trigger"}

\* remove(): a table leaves with all its objects.
Removed(objects, gone) ==
  LET tables == {g.table : g \in {x \in gone : x.kind = "table"}} IN
  {o \in objects : Id(o) \notin gone /\ o.table \notin tables}

\* The objects of a rejected table are not reported apart from it.
ToRemove(rejected) ==
  LET tables == {r.table : r \in {x \in rejected : x.kind = "table"}} IN
  {r \in rejected : r.kind = "table" \/ r.table \notin tables}

-----------------------------------------------------------------------------
(* Specification.                                                          *)

Init ==
  /\ pc = "read"
  /\ dialect \in Dialects
  /\ db \in Databases(dialect)
  /\ doc = {} /\ reported = {} /\ again = {} /\ passes = 0

\* The catalog queries, and dropTablesWithoutKey() at the start of document().
Read ==
  /\ pc = "read"
  /\ pc' = "parse"
  /\ \E keys \in {ReadForeignKeys}, columns \in {ReadColumns} :
     \E all \in {All(<<ReadTables, columns, ReadKeys, keys, ReadChecks,
                       RecognizeTriggers(columns.objects, keys.objects), ReadOthers>>)} :
     \E keyless \in {{Id(o) : o \in {x \in ReadTables.objects : In(Of(all.objects, "primary"), x.table) = {}}}} :
     \E end \in {All(<<all, Outcome({}, keyless)>>)} :
       /\ doc' = Removed(end.objects, keyless)
       /\ reported' = end.reports
       /\ again' = end.again
  /\ UNCHANGED <<dialect, db, passes>>

\* One turn of the loop of document().
Pass ==
  /\ pc = "parse" /\ passes < MaxPasses
  /\ passes' = passes + 1
  /\ \E rejected \in {Rejected(doc)} : \E gone \in {ToRemove(rejected)} :
     \/ /\ rejected = {}
        /\ pc' = "done"
        /\ UNCHANGED <<doc, reported, again>>
     \/ /\ rejected # {}
        /\ doc' = Removed(doc, gone)
        /\ reported' = reported \cup gone
        /\ again' = again \cup (reported \cap gone)
        /\ UNCHANGED pc
  /\ UNCHANGED <<dialect, db>>

Next == Read \/ Pass

Spec == Init /\ [][Next]_vars

-----------------------------------------------------------------------------
(* Properties.                                                             *)

\* Types of the call; the document holds each object once.
TypeOK ==
  /\ pc \in {"read", "parse", "done"} /\ dialect \in Dialects /\ passes \in 0..MaxPasses
  /\ \A o, x \in doc : Named(o) = Named(x) => o = x

ReportedAs(kinds, t, n) == \E r \in reported : r.kind \in kinds /\ r.table = t /\ r.name = n
TableReported(t) == ReportedAs({"table", "view", "partition"}, t, t)
InDocument(kind, t, n) == \E o \in doc : o.kind = kind /\ o.table = t /\ o.name = n

\* What stands for an object of the database in the result: itself, the column of
\* its renderer CHECK, the setting of its triggers, the trigger of its function.
AccountedFor(o) ==
  \/ InDocument(o.kind, o.table, o.name)
  \/ ReportedAs({o.kind, "index"}, o.table, o.name)
  \/ o.kind = "primary" /\ ReportedAs({"unique"}, o.table, o.name)
  \/ TableReported(o.table)
  \/ /\ o.kind = "check" /\ o.form = "renderer"
     /\ \E c \in Columns(o) : InDocument("column", o.table, c) \/ ReportedAs({"column"}, o.table, c)
  \/ /\ o.kind = "trigger"
     /\ \E s \in {"immutable", "audit"} : /\ o.name \in EventsOf({s})
                                          /\ InDocument("trigger", o.table, s) \/ ReportedAs({"trigger"}, o.table, s)
  \/ o.kind = "routine" /\ \E g \in Of(db, "trigger") : g.ref.cols = <<o.name>>

\* docs/spec/dialects.md:359 (DIA-151): "Each unsupported object is reported with
\* its kind, its table and name where it has them ...; the document leaves it out".
\* Whatever the readers and the passes removed, every object of the database is in
\* the document or in the list.
NothingLost == pc = "done" => \A o \in db : AccountedFor(o)

\* docs/spec/dialects.md:361 (DIA-152): "Each object is reported once, also a
\* foreign key whose catalog rows are one per column", and what is reported is not
\* in the document.
ReportedOnce ==
  /\ again = {}
  /\ pc = "done" => \A o \in doc : Id(o) \notin reported

\* MySQL's rows name the table that a key refers to without its database.
OtherDatabase(o) == dialect = "mysql" /\ o.kind = "foreign_key" /\ o.form = "outside"

\* An object of the document means the object of the database: an unsupported form,
\* a column without the CHECK that gives it its type, or a trigger set that is not
\* the renderer output is never read as a definition, a MySQL key to another
\* database aside.
NothingMisread ==
  pc = "done" =>
    \A o \in doc :
      IF o.kind = "trigger"
      THEN {g.name : g \in In(Of(db, "trigger"), o.table)} \cap EventsOf({o.name}) = EventsOf({o.name})
           /\ \A g \in In(Of(db, "trigger"), o.table) : g.form = "plain"
      ELSE \E x \in db : /\ Named(x) = Named(o) /\ x.cols = o.cols
                         /\ \/ x.form = "plain"
                            \/ x.form = "checked" /\ OwnCheck(x)
                            \/ OtherDatabase(x)

\* document() comes to an end: a pass that rejects a line takes at least one object
\* out of the document, and never puts one in.
PassRemovesStep == pc = "parse" /\ pc' = "parse" => doc' # doc /\ doc' \subseteq doc
PassRemoves == [][PassRemovesStep]_<<pc, doc, passes>>
=============================================================================
