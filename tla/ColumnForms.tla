---------------------------- MODULE ColumnForms -----------------------------
(***************************************************************************)
(* One column between a dbspec document and a database: what render.ts     *)
(* writes for it, what the catalog of the dialect shows, and what the      *)
(* column readers of introspect_mysql.ts, introspect_postgres.ts and       *)
(* introspect_sqlite.ts make of a catalog row.  A column was created from  *)
(* a document, or by hand.                                                 *)
(*                                                                         *)
(* A literal is [k, s, v, f]: its token kind, the shape of its text when   *)
(* it is a string, its digits without the point, and how many of them are  *)
(* fraction digits.                                                        *)
(***************************************************************************)
EXTENDS Integers, Sequences, FiniteSets, FiniteSetsExt

CONSTANTS
  Dialects,
  Declared,       \* the columns of accepted documents
  ByHand(_)       \* the catalog rows of columns that the renderer did not write

VARIABLES
  pc,        \* "new", "stored" or "read"
  dialect,
  column,    \* the declared column, or NoColumn
  row,       \* the catalog row
  result     \* what the reader makes of it

vars == <<pc, dialect, column, row, result>>

-----------------------------------------------------------------------------
(* Values.                                                                 *)

Lit(k, s, v, f) == [k |-> k, s |-> s, v |-> v, f |-> f]
NoLit == Lit("none", "", 0, 0)
Now(p) == Lit("now", "", p, 0)
Num(v, f) == Lit("num", "", v, f)
Str(s, v, f) == Lit("str", s, v, f)
Word(b) == Lit("word", "", b, 0)

Type(kind, p, s) == [kind |-> kind, p |-> p, s |-> s]
Integral == {"i16", "i32", "i64"}
Temporal == {"time", "datetime"}
Plain == Integral \cup {"bool", "f64", "text", "bytes", "uuid", "date"}

NoColumn == [type |-> Type("none", 0, 0), nullable |-> FALSE, identity |-> FALSE, dflt |-> NoLit]

\* Trailing zero fraction digits removed: shortestDecimal(), and the literals of
\* PostgreSQL's catalog.
Stripped(l) ==
  LET n == Max({i \in 0..l.f : l.v % (10^i) = 0}) IN [l EXCEPT !.v = @ \div (10^n), !.f = @ - n]

\* Zero digits appended up to n fraction digits.
Widened(l, n) == [l EXCEPT !.v = @ * 10^(n - l.f), !.f = n]

-----------------------------------------------------------------------------
(* The document side: type() and defaultOf() of parse.ts.                  *)

TypeAccepted(t) ==
  \/ t.kind \in Plain
  \/ t.kind = "decimal" /\ t.p \in 1..18 /\ t.s \in 0..t.p
  \/ t.kind = "varchar" /\ t.p \in 1..16383
  \/ t.kind \in Temporal /\ t.p \in 0..6

\* Whether a literal fits a column of type t, and its canonical form there.
Fits(t, l) ==
  CASE t.kind \in Integral ->
         /\ l.k = "num" /\ l.f = 0
         /\ t.kind = "i16" => l.v \in -32768..32767
    [] t.kind = "bool" -> l.k = "word"
    [] t.kind = "decimal" -> l.k = "num" /\ l.f <= t.s /\ Widened(l, t.s).v \in -(10^t.p - 1)..(10^t.p - 1)
    [] t.kind = "f64" -> l.k = "num"
    [] t.kind = "varchar" -> l.k = "str" /\ l.s = "plain" /\ l.v <= t.p
    [] t.kind = "uuid" -> l.k = "str" /\ l.s \in {"uuid", "UUID"}
    [] t.kind = "date" -> l.k = "str" /\ l.s = "date"
    [] t.kind = "time" -> l.k = "str" /\ l.s = "time" /\ l.f <= t.p
    [] t.kind = "datetime" -> l.k = "now" \/ (l.k = "str" /\ l.s = "datetime" /\ l.f <= t.p)
    [] OTHER -> FALSE

Canonical(t, l) ==
  CASE l.k = "now" -> Now(0)
    [] t.kind = "decimal" -> Widened(l, t.s)
    [] t.kind = "f64" -> Stripped(l)
    [] t.kind = "uuid" -> [l EXCEPT !.s = "uuid"]
    [] t.kind \in Temporal -> Widened(l, t.p)
    [] OTHER -> l

\* Whether the line of a column is accepted, and the column it declares.
LineAccepted(c) ==
  /\ TypeAccepted(c.type)
  /\ c.identity => c.type.kind = "i64" /\ ~c.nullable /\ c.dflt = NoLit
  /\ c.dflt # NoLit => Fits(c.type, c.dflt)

LineColumn(c) == IF c.dflt = NoLit THEN c ELSE [c EXCEPT !.dflt = Canonical(c.type, @)]

-----------------------------------------------------------------------------
(* The renderer.                                                           *)

Native(name, args, coll) == [name |-> name, args |-> args, coll |-> coll]

Text4 == "utf8mb4_0900_bin"

MySqlNames ==
  [i16 |-> "smallint", i32 |-> "int", i64 |-> "bigint", bool |-> "tinyint(1)", decimal |-> "decimal", f64 |-> "double",
   varchar |-> "varchar", text |-> "longtext", bytes |-> "longblob", uuid |-> "char(36)", date |-> "date",
   time |-> "time", datetime |-> "datetime"]

PostgresNames ==
  [i16 |-> "smallint", i32 |-> "integer", i64 |-> "bigint", bool |-> "boolean", decimal |-> "numeric",
   f64 |-> "double precision", varchar |-> "character varying", text |-> "text", bytes |-> "bytea", uuid |-> "uuid",
   date |-> "date", time |-> "time", datetime |-> "timestamp"]

SqliteNames ==
  [i16 |-> "smallint", i32 |-> "integer", i64 |-> "bigint", bool |-> "BOOLEAN", decimal |-> "DECIMALINT", f64 |-> "REAL",
   varchar |-> "varchar", text |-> "TEXT", uuid |-> "TEXT", bytes |-> "BLOB", date |-> "DATE", time |-> "TIME",
   datetime |-> "DATETIME"]

Arguments(d, t) ==
  CASE t.kind = "decimal" -> <<t.p, t.s>>
    [] t.kind = "varchar" -> <<t.p>>
    [] t.kind \in Temporal /\ d # "sqlite" -> <<t.p>>
    [] OTHER -> <<>>

Collation(d, t) ==
  CASE d = "mysql" /\ t.kind \in {"varchar", "text"} -> Text4
    [] d = "mysql" /\ t.kind = "uuid" -> "ascii_bin"
    [] d = "postgres" /\ t.kind \in {"varchar", "text"} -> "C"
    [] OTHER -> ""

typeText(d, t) ==
  Native(CASE d = "mysql" -> MySqlNames[t.kind] [] d = "postgres" -> PostgresNames[t.kind] [] d = "sqlite" -> SqliteNames[t.kind],
         Arguments(d, t), Collation(d, t))

\* A CHECK expression on the column by what it says: the template and the number
\* in it, and in MySQL's catalog the introducers and zero fractions of its literals.
Check(form, n) == [form |-> form, n |-> n, intro |-> "none", zeros |-> 0]
NoCheck == Check("", 0)

typeCheck(d, t) ==
  CASE d = "mysql" /\ t.kind \in {"bool", "uuid", "time"} -> Check(t.kind, 0)
    [] d = "postgres" /\ t.kind = "time" -> Check("time", 0)
    [] d = "sqlite" /\ t.kind \in {"i16", "i32", "i64", "bool", "f64", "uuid", "date"} -> Check(t.kind, 0)
    [] d = "sqlite" /\ t.kind \in {"decimal", "varchar", "time", "datetime"} -> Check(t.kind, t.p)
    [] OTHER -> NoCheck

literal(d, t, l) ==
  CASE l.k = "word" /\ d # "postgres" -> Num(l.v, 0)
    [] t.kind = "decimal" /\ d = "sqlite" -> Num(l.v, 0)
    [] OTHER -> l

defaultText(d, t, l) ==
  CASE l = NoLit -> NoLit
    [] l.k = "now" -> Now(IF d = "postgres" THEN 0 ELSE t.p)
    [] OTHER -> literal(d, t, l)

\* The definition of a column: native type, null, how its key is generated ("no",
\* "identity", or another clause), default and renderer CHECK.
Row(type, nullable, auto, dflt, check) ==
  [type |-> type, nullable |-> nullable, auto |-> auto, dflt |-> dflt, check |-> check]

Rendered(d, c) ==
  IF c.identity
  THEN Row(IF d = "sqlite" THEN Native("INTEGER", <<>>, "") ELSE typeText(d, c.type), FALSE, "identity", NoLit, NoCheck)
  ELSE Row(typeText(d, c.type), c.nullable, "no", defaultText(d, c.type, c.dflt), typeCheck(d, c.type))

-----------------------------------------------------------------------------
(* The catalogs: what a database shows of a definition.                    *)

\* MySQL shows precision 0 without parentheses and a default as its bare text, a
\* date-time padded to its precision; PostgreSQL casts the strings and the
\* negative numbers; SQLite shows what was written, a keyword in upper case.
Shown(d, r) ==
  CASE d = "mysql" ->
         [r EXCEPT !.type.args = IF r.type.name \in Temporal /\ @ = <<0>> THEN <<>> ELSE @,
                   !.dflt.k = IF @ \in {"num", "str"} THEN "value" ELSE @,
                   !.check.intro = IF r.check.form \in {"uuid", "time"} THEN "utf8mb4" ELSE "none"]
    [] d = "postgres" ->
         [r EXCEPT !.dflt = CASE @.k = "str" /\ @.s \in Temporal -> [Stripped(@) EXCEPT !.k = "cast"]
                              [] @.k = "str" -> [@ EXCEPT !.k = "cast"]
                              [] @.k = "num" /\ @.v < 0 -> [@ EXCEPT !.k = "cast"]
                              [] OTHER -> @]
    [] d = "sqlite" -> [r EXCEPT !.type.name = IF @ = "integer" THEN "INTEGER" ELSE @]

-----------------------------------------------------------------------------
(* The readers.                                                            *)

NoType == Type("none", 0, 0)

KindOf(names, name) == {k \in DOMAIN names : names[k] = name}

mysqlType(n) ==
  LET p == IF n.args = <<>> THEN 0 ELSE n.args[1] IN
  CASE n.name = "decimal" /\ Len(n.args) = 2 /\ n.coll = "" -> Type("decimal", n.args[1], n.args[2])
    [] n.name = "varchar" /\ Len(n.args) = 1 /\ n.coll = Text4 -> Type("varchar", p, 0)
    [] n.name \in {"smallint", "int", "bigint", "double", "date"} /\ n.args = <<>> ->
         Type(CHOOSE k \in KindOf(MySqlNames, n.name) : TRUE, 0, 0)
    [] n.name \in {"tinyint(1)", "longblob"} -> Type(CHOOSE k \in KindOf(MySqlNames, n.name) : TRUE, 0, 0)
    [] n.name = "longtext" /\ n.coll = Text4 -> Type("text", 0, 0)
    [] n.name = "char(36)" /\ n.coll = "ascii_bin" -> Type("uuid", 0, 0)
    [] n.name \in Temporal -> Type(n.name, p, 0)
    [] OTHER -> NoType

postgresType(n) ==
  CASE n.name = "numeric" /\ Len(n.args) = 2 -> Type("decimal", n.args[1], n.args[2])
    [] n.name = "character varying" /\ Len(n.args) = 1 /\ n.coll = "C" -> Type("varchar", n.args[1], 0)
    [] n.name = "time" /\ Len(n.args) = 1 -> Type("time", n.args[1], 0)
    [] n.name = "timestamp" /\ Len(n.args) = 1 -> Type("datetime", n.args[1], 0)
    [] n.name = "text" /\ n.coll = "C" -> Type("text", 0, 0)
    [] n.name \in {"smallint", "integer", "bigint", "boolean", "double precision", "bytea", "uuid", "date"} ->
         Type(CHOOSE k \in KindOf(PostgresNames, n.name) : TRUE, 0, 0)
    [] OTHER -> NoType

\* The candidates of a declared type; SQLite reports the keyword integer in upper case.
SqliteCandidates(n) ==
  CASE n.name = "DECIMALINT" /\ Len(n.args) = 2 -> {Type("decimal", n.args[1], n.args[2])}
    [] n.name = "varchar" /\ Len(n.args) = 1 -> {Type("varchar", n.args[1], 0)}
    [] n.name = "INTEGER" /\ n.args = <<>> -> {Type("i32", 0, 0)}
    [] n.name = "TIME" /\ n.args = <<>> -> {Type("time", p, 0) : p \in 0..6}
    [] n.name = "DATETIME" /\ n.args = <<>> -> {Type("datetime", p, 0) : p \in 0..6}
    [] OTHER -> {Type(k, 0, 0) : k \in IF n.args = <<>> THEN KindOf(SqliteNames, n.name) \ {"decimal", "varchar"} ELSE {}}

\* A faulty reader that takes the declared type whatever its CHECK says.
sqliteTypeDeclared(n, check) ==
  IF SqliteCandidates(n) = {} THEN NoType ELSE CHOOSE t \in SqliteCandidates(n) : TRUE

\* The CHECK must be the renderer output of the type.
sqliteType(n, check) ==
  LET fitting == {t \in SqliteCandidates(n) : typeCheck("sqlite", t) = check} IN
  IF fitting = {} THEN NoType ELSE CHOOSE t \in fitting : TRUE

\* Unreadable marks a default that is no dbspec default.
Unreadable == Lit("bad", "", 0, 0)

mysqlNow(l, t) == t.kind = "datetime" /\ l.v = t.p

mysqlDefault(l, t) ==
  CASE l.k = "none" -> NoLit
    [] l.k = "now" -> IF mysqlNow(l, t) THEN Now(0) ELSE Unreadable
    [] l.k = "expr" -> Unreadable
    [] t.kind = "bool" -> IF l.s = "" /\ l.f = 0 /\ l.v \in {0, 1} THEN Word(l.v) ELSE [l EXCEPT !.k = "str"]
    [] t.kind \in Integral \cup {"decimal", "f64"} -> [l EXCEPT !.k = IF l.s = "" THEN "num" ELSE "bad"]
    [] OTHER -> [l EXCEPT !.k = "str"]

postgresDefault(l, t) ==
  CASE l.k = "none" -> NoLit
    [] l.k = "now" -> IF t.kind = "datetime" THEN Now(0) ELSE Unreadable
    [] l.k = "cast" -> [l EXCEPT !.k = IF t.kind \in Integral \cup {"decimal", "f64"} THEN "num" ELSE "str"]
    [] l.k = "word" -> IF t.kind = "bool" THEN l ELSE Unreadable
    [] l.k = "num" -> l
    [] OTHER -> Unreadable

\* unscaledDecimal() puts a second point into a text that has one already.
sqliteDefault(l, t) ==
  CASE l.k = "none" -> NoLit
    [] l.k = "now" -> IF t.kind = "datetime" /\ l.v = t.p THEN Now(0) ELSE Unreadable
    [] t.kind = "bool" /\ l.k = "num" /\ l.f = 0 /\ l.v \in {0, 1} -> Word(l.v)
    [] t.kind = "decimal" /\ l.k = "num" -> IF l.f = 0 THEN Num(l.v, t.s) ELSE Unreadable
    [] l.k \in {"num", "str"} -> l
    [] OTHER -> Unreadable

\* A faulty comparison that reads the clause with its introducers.
withoutIntroducersKept(check) == [check EXCEPT !.zeros = 0]

withoutIntroducers(check) == [check EXCEPT !.intro = "none", !.zeros = 0]

\* What a row is read as: a column or none, and whether its CHECK is reported.
Read(c, reported) ==
  [column |-> IF c # NoColumn /\ LineAccepted(c) THEN LineColumn(c) ELSE NoColumn, check |-> reported]

ReadColumn(t, r, l, ok) ==
  IF ok /\ t # NoType /\ r.auto \in {"no", "identity"} /\ l.k # "bad"
  THEN [type |-> t, nullable |-> r.nullable, identity |-> r.auto = "identity", dflt |-> l]
  ELSE NoColumn

\* The column with its catalog default, then its CHECK, and the column again when
\* its type needs a CHECK that was not found.
readMySQL(r) ==
  LET t == mysqlType(r.type)
      own == t # NoType /\ r.check.form # "" /\ withoutIntroducers(r.check) = typeCheck("mysql", t)
      needs == t.kind \in {"bool", "uuid", "time"}
      c == ReadColumn(t, r, mysqlDefault(r.dflt, t), ~needs \/ own) IN
  Read(c, r.check # NoCheck /\ ~(own /\ ReadColumn(t, r, mysqlDefault(r.dflt, t), TRUE) # NoColumn))

readPostgres(r) ==
  LET t == postgresType(r.type)
      own == t.kind = "time" /\ r.check = typeCheck("postgres", t)
      c == ReadColumn(t, r, postgresDefault(r.dflt, t), t.kind = "time" => own) IN
  Read(c, r.check # NoCheck /\ ~(own /\ ReadColumn(t, r, postgresDefault(r.dflt, t), TRUE) # NoColumn))

\* The identity of SQLite is read from the CREATE TABLE text.
readSQLite(r) ==
  LET t == IF r.auto = "identity" THEN Type("i64", 0, 0) ELSE sqliteType(r.type, r.check)
      c == ReadColumn(t, r, sqliteDefault(r.dflt, t), TRUE) IN
  Read(c, r.check # NoCheck /\ (t = NoType \/ r.auto \notin {"no", "identity"}))

ReadRow(d, r) ==
  CASE d = "mysql" -> readMySQL(r) [] d = "postgres" -> readPostgres(r) [] d = "sqlite" -> readSQLite(r)

-----------------------------------------------------------------------------
(* Specification.                                                          *)

NoRow == Row(Native("", <<>>, ""), FALSE, "no", NoLit, NoCheck)
NoResult == [column |-> NoColumn, check |-> FALSE]

Init ==
  /\ dialect \in Dialects
  /\ result = NoResult
  /\ \/ pc = "new" /\ column \in Declared /\ row = NoRow
     \/ pc = "stored" /\ column = NoColumn /\ row \in ByHand(dialect)

\* The CREATE TABLE of the renderer.
Create ==
  /\ pc = "new"
  /\ pc' = "stored"
  /\ row' = Shown(dialect, Rendered(dialect, column))
  /\ UNCHANGED <<dialect, column, result>>

\* An ALTER TABLE of the table: MySQL writes the CHECK_CLAUSE again, with other
\* introducers, and gives a time literal the zero fraction of its column.
AlterTable ==
  /\ pc = "stored" /\ dialect = "mysql" /\ row.check.intro = "utf8mb4"
  /\ row' = [row EXCEPT !.check.intro = IF row.check.form = "uuid" THEN "ascii" ELSE "none",
                        !.check.zeros = IF row.check.form = "time" /\ row.type.args # <<>> THEN row.type.args[1] ELSE 0]
  /\ UNCHANGED <<pc, dialect, column, result>>

Introspect ==
  /\ pc = "stored"
  /\ pc' = "read"
  /\ result' = ReadRow(dialect, row)
  /\ UNCHANGED <<dialect, column, row>>

Next == Create \/ AlterTable \/ Introspect

Spec == Init /\ [][Next]_vars

-----------------------------------------------------------------------------
(* Properties.                                                             *)

\* docs/spec/dialects.md:305 (DIA-133): introspecting what was rendered gives the
\* schema text of the source and no unsupported object.  Every column of an
\* accepted document comes back with its type, null, identity and canonical
\* default, also after an ALTER TABLE of MySQL has rewritten its CHECK.
ColumnReadBack ==
  pc = "read" /\ column # NoColumn => result = [column |-> column, check |-> FALSE]

\* Two rows that a database treats alike: introducers and zero fractions aside,
\* and defaults of the same value.
Value(l) ==
  Stripped([l EXCEPT !.s = IF @ = "UUID" THEN "uuid" ELSE @, !.k = IF l.k = "cast" /\ l.s = "" THEN "num" ELSE @])
SameRow(a, b) ==
  /\ a.type = b.type /\ a.nullable = b.nullable /\ a.auto = b.auto
  /\ withoutIntroducers(a.check) = withoutIntroducers(b.check)
  /\ Value(a.dflt) = Value(b.dflt)

\* The CHECK that is named for the identity column of a SQLite table: the reader
\* takes it out of the checks with those of the other columns.
IdentityCheck == dialect = "sqlite" /\ row.auto = "identity"

\* docs/spec/dialects.md:329 (DIA-137) and :333 (DIA-140): a column that is read
\* means the catalog row it was read from.  Rendering it again gives that row but
\* for a CHECK that was reported: no type, CHECK, clause or default of a column
\* made by hand is dropped in silence, a CHECK named for an identity column aside.
ReadColumnIsWhole ==
  pc = "read" /\ result.column # NoColumn =>
    SameRow(IF result.check \/ IdentityCheck THEN [row EXCEPT !.check = NoCheck] ELSE row,
            Shown(dialect, Rendered(dialect, result.column)))
=============================================================================
