---------------------------- MODULE TableSettings ---------------------------
(***************************************************************************)
(* The rules of a table's settings (Parser.settings() and its helpers in   *)
(* dbspec/parse.ts), judged on tables whose lines have been read.  The     *)
(* settings of one table are judged in order, then the state_machine and   *)
(* checkbox lines against each other.  What an accepted audit setting      *)
(* means is what the renderer writes for it: the INSERT statements of its  *)
(* triggers (Renderer.history() in dbspec/render.ts).                      *)
(***************************************************************************)
EXTENDS Integers, Sequences, FiniteSets, SequencesExt, FiniteSetsExt

CONSTANTS
  Texts,        \* identifiers of the documents
  TablesOf(_),  \* the tables of a document, in order; the settings of the first are judged
  MaxCount      \* the largest row count that fits 64 bits

VARIABLES
  text,    \* the document
  k,       \* the next entry of the settings block
  diags,   \* the diagnostics: the entry and what is wrong with it
  pc

vars == <<text, k, diags, pc>>

tables == TablesOf(text)
table == tables[1]
entries == table.settings

-----------------------------------------------------------------------------
(* Columns.                                                                *)

HasCol(t, x) == \E c \in ToSet(t.columns) : c.name = x
Col(t, x) == SelectSeq(t.columns, LAMBDA c : c.name = x)[1]

\* lookup(): an unknown column is reported, one whose line failed is not.
Lacks(t, x) == ~HasCol(t, x) /\ x \notin t.failed

HasTable(x) == \E t \in ToSet(tables) : t.name = x
TableOf(x) == SelectSeq(tables, LAMBDA t : t.name = x)[1]

Textual(c) == c.kind \in {"varchar", "text"}
Integral(c) == c.kind \in {"i16", "i32", "i64"}
SameType(c, d) == c.kind = d.kind /\ c.size = d.size

\* inKeyOrCheck().
Keyed(t, x) == \E cols \in ToSet(t.pks \o t.uniques \o t.indexes \o t.checks) \cup {f.cols : f \in ToSet(t.fks)} : x \in ToSet(cols)

\* The column that a setting of one column may name.
Suits(s, c) ==
  CASE s.kind = "updated" -> c.kind = "datetime"
    [] s.kind = "soft_delete" -> c.kind = "datetime" /\ c.null
    [] s.kind = "aes_version" -> Integral(c) /\ ~c.null
    [] s.kind = "markdown" -> Textual(c)
    [] s.kind \in {"title", "body", "state_machine"} -> Textual(c) /\ ~c.null
    [] s.kind = "order" -> c.kind \in {"i32", "i64"} /\ ~c.null /\ c.dflt = "" /\ ~Keyed(table, c.name)
    [] s.kind = "shard" -> c.kind \in {"date", "datetime"} /\ ~c.null

\* A reference to a column of the table that the setting kind demands.
Demands(i, kind, x) ==
  {<<i, x>> : y \in {z \in {x} : Lacks(table, z)}}
  \cup {<<i, kind>> : y \in {z \in {x} : HasCol(table, z) /\ ~Suits([kind |-> kind], Col(table, z))}}

When(b, i, what) == IF b THEN {<<i, what>>} ELSE {}

-----------------------------------------------------------------------------
(* Codecs and blind indexes.                                               *)

Entries(kind) == {i \in DOMAIN entries : entries[i].kind = kind}
AesColumns == {entries[i].col : i \in {j \in Entries("codec") : "aes" \in ToSet(entries[j].stages)}}
Stages == {"ordered_json", "serialize", "yaml", "gz", "base64", "hex", "aes", "ip"}

\* codec(): the stage order, and the storage type of the last stage.
CodecDiags(i) ==
  LET s == entries[i]
      c == Col(table, s.col)
      bytes == s.stages[Len(s.stages)] \in {"aes", "gz", "ip"} IN
  When(Lacks(table, s.col), i, s.col)
  \cup When("aes" \in ToSet(s.stages) /\ Entries("aes_version") = {}, i, "aes_version")
  \cup When(SelectInSeq(s.stages, LAMBDA x : x = "ordered_json") > 1, i, "ordered_json")
  \cup When(/\ HasCol(table, s.col) /\ ToSet(s.stages) \subseteq Stages
            /\ IF bytes THEN c.kind # "bytes" ELSE ~Textual(c), i, "storage")

\* blindIndex().
BlindIndexDiags(i) ==
  LET s == entries[i]
      target == Col(table, s.index)
      indexed == <<s.index>> \in ToSet(table.uniques \o table.indexes) IN
  When(Lacks(table, s.col), i, s.col)
  \cup When(HasCol(table, s.col) /\ s.col \notin AesColumns, i, "aes")
  \cup When(Lacks(table, s.index), i, s.index)
  \cup When(/\ HasCol(table, s.index)
            /\ \/ s.index \in AesColumns
               \/ target.kind # "varchar" \/ target.size < 64
               \/ HasCol(table, s.col) /\ Col(table, s.col).null # target.null
               \/ ~table.failedKey /\ ~indexed, i, "index")

-----------------------------------------------------------------------------
(* Audit.                                                                  *)

NoList == [kw |-> "", cols |-> <<>>]
ListOf(a) == IF a.lists = <<>> THEN NoList ELSE a.lists[1]

\* auditRecords(), and auditLists() of an accepted setting.
Records(a, x) ==
  \/ x = a.col
  \/ ListOf(a).kw = "exclude" /\ x \notin ToSet(ListOf(a).cols)
  \/ ListOf(a).kw = "include" /\ x \in ToSet(ListOf(a).cols)
  \/ ListOf(a).kw = ""

Recorded(t, a) == SelectSeq(t.columns, LAMBDA c : Records(a, c.name))

AuditListDiags(i) ==
  LET a == entries[i]
      cols == ListOf(a).cols IN
  IF Len(a.lists) > 1 THEN {<<i, "lists">>}
  ELSE When(~IsInjective(cols), i, "repeats")
       \cup When(a.col \in ToSet(cols), i, "always")
       \cup {<<i, x>> : x \in {y \in ToSet(cols) \ {a.col} : Lacks(table, y)}}

Audited(t) == \E s \in ToSet(t.settings) : s.kind = "audit"
Refers(t, x, target, key) ==
  \E f \in ToSet(t.fks) : f.cols = <<x>> /\ f.table = target /\ f.refs = <<key>> /\ f.delete = "restrict" /\ f.update = "restrict"

\* The one column of a table's primary key.
SingleKey(t) == Len(t.pks) = 1 /\ Len(t.pks[1]) = 1

\* auditRecord(): the audit record table.
AuditRecordDiags(i) ==
  LET a == entries[i]
      r == TableOf(a.references)
      key == r.pks[1][1]
      typed == HasCol(table, a.col) /\ HasCol(r, key) IN
  IF ~HasTable(a.references) \/ a.references \in {table.name, a.into} THEN {<<i, "references">>}
  ELSE When(Audited(r), i, "record audited")
       \cup (IF ~SingleKey(r) THEN When(~r.failedPrimary, i, "record key")
             ELSE IF ~typed THEN {}
             ELSE IF ~SameType(Col(table, a.col), Col(r, key)) THEN {<<i, "record type">>}
             ELSE When(~Refers(table, a.col, a.references, key) /\ ~table.failedKey, i, "record fk"))

\* auditTables(): the tables table.
AuditTablesDiags(i) ==
  LET a == entries[i]
      c == a.tables[1]
      t == TableOf(c.table)
      r == TableOf(a.references) IN
  IF ~HasTable(c.table) \/ c.table \in {table.name, a.into, a.references} THEN {<<i, "tables">>}
  ELSE IF Audited(t) THEN {<<i, "tables audited">>}
  ELSE IF Lacks(t, c.record) \/ Lacks(t, c.name) THEN {<<i, x>> : x \in {y \in {c.record, c.name} : Lacks(t, y)}}
  ELSE When(HasCol(t, c.name) /\ ~(Col(t, c.name).kind = "varchar" /\ Col(t, c.name).size >= 63), i, "tables name")
       \cup {<<i, x.name>> : x \in {y \in ToSet(t.columns) : y.name \notin {c.record, c.name}}}
       \cup When(~t.failedPrimary /\ t.pks # <<<<c.record, c.name>>>>, i, "tables key")
       \cup When(/\ HasTable(a.references) /\ SingleKey(r) /\ ~t.failedKey
                 /\ ~Refers(t, c.record, a.references, r.pks[1][1]), i, "tables fk")

Identity(h) == SelectSeq(h.columns, LAMBDA c : c.identity)
Reserved(h, a) == {a.action, a.previous} \cup (IF Identity(h) = <<>> THEN {} ELSE {Head(Identity(h)).name})

\* A faulty audit() that takes a reserved history column for a copy.
CopyDiagsShared(i, h) ==
  LET a == entries[i]
      recorded == ToSet(Recorded(table, a)) IN
  {<<i, c.name>> : c \in {d \in recorded : ~HasCol(h, d.name) \/ ~SameType(d, Col(h, d.name))}}
  \cup {<<i, c.name>> : c \in {d \in ToSet(h.columns) : d.name \notin Reserved(h, a) \cup {r.name : r \in recorded}}}

\* The copies of the recorded columns, and no other column.
CopyDiags(i, h) ==
  LET a == entries[i]
      recorded == ToSet(Recorded(table, a)) IN
  {<<i, c.name>> : c \in {d \in recorded : \/ ~HasCol(h, d.name) \/ d.name \in Reserved(h, a)
                                           \/ ~SameType(d, Col(h, d.name))}}
  \cup {<<i, c.name>> : c \in {d \in ToSet(h.columns) : d.name \notin Reserved(h, a) \cup {r.name : r \in recorded}}}

\* The history table of audit().
AuditHistoryDiags(i) ==
  LET a == entries[i]
      h == TableOf(a.into) IN
  IF ~HasTable(a.into) \/ a.into = table.name THEN {<<i, "into">>}
  ELSE When(Audited(h), i, "history audited")
       \cup When(Identity(h) = <<>> \/ Identity(h)[1].kind # "i64", i, "history key")
       \cup When(~HasCol(h, a.action) \/ Col(h, a.action).kind # "varchar" \/ Col(h, a.action).size # 8
                 \/ Col(h, a.action).null, i, "action")
       \cup When(~HasCol(h, a.previous) \/ ~Col(h, a.previous).null
                 \/ (HasCol(table, a.col) /\ ~SameType(Col(h, a.previous), Col(table, a.col))), i, "previous")
       \cup (IF Len(a.lists) > 1 THEN {} ELSE CopyDiags(i, h))

ActionChild == \E f \in ToSet(table.fks) : {f.delete, f.update} \cap {"cascade", "set_null"} # {}

\* audit().
AuditDiags(i) ==
  LET a == entries[i] IN
  When(ActionChild, i, "child")
  \cup When(Lacks(table, a.col), i, a.col)
  \cup When(HasCol(table, a.col) /\ Col(table, a.col).null, i, "audit column")
  \cup AuditListDiags(i)
  \cup AuditRecordDiags(i)
  \cup (IF a.tables = <<>> THEN {} ELSE AuditTablesDiags(i))
  \cup AuditHistoryDiags(i)

-----------------------------------------------------------------------------
(* One entry of the settings block.                                        *)

\* store with its shard clause.
StoreDiags(i) ==
  LET s == entries[i] IN
  When(s.storage = "block" /\ s.fk \notin table.failed /\ \A f \in ToSet(table.fks) : f.name # s.fk, i, "store fk")
  \cup (IF s.shard = "" THEN {}
        ELSE Demands(i, "shard", s.shard)
             \cup When(\/ s.storage = "block" \/ Entries("order") # {}
                       \/ \E f \in ToSet(table.fks) : f.table = table.name, i, "shard table"))

KeyPrefixDiags(i) ==
  LET x == table.pks[1][1] IN
  IF table.failedPrimary THEN {}
  ELSE IF ~SingleKey(table) THEN {<<i, "key_prefix">>}
  ELSE When(HasCol(table, x) /\ Col(table, x).kind # "varchar", i, "key_prefix")

\* The key under which a setting may stand once in a table.
Once(s) ==
  CASE s.kind \in {"codec", "blind_index", "markdown"} -> <<s.kind, s.col>>
    [] s.kind = "navigation" -> <<s.kind, s.fk>>
    [] OTHER -> <<s.kind>>
Repeats(i) ==
  /\ entries[i].kind \notin {"state_machine", "checkbox"}
  /\ \E j \in 1..(i - 1) : entries[j].kind \notin {"state_machine", "checkbox"} /\ Once(entries[j]) = Once(entries[i])

Judged(i) ==
  LET s == entries[i] IN
  CASE s.kind \in {"updated", "soft_delete", "markdown", "title", "body", "order"} -> Demands(i, s.kind, s.col)
    [] s.kind = "aes_version" -> Demands(i, s.kind, s.col) \cup When(AesColumns = {}, i, "no aes")
    [] s.kind = "select_explicit" ->
         {<<i, x>> : x \in {y \in ToSet(s.cols) : Lacks(table, y)}}
         \cup When(~IsInjective(SelectSeq(s.cols, LAMBDA x : HasCol(table, x))), i, "repeats")
    [] s.kind = "codec" -> CodecDiags(i)
    [] s.kind = "blind_index" -> BlindIndexDiags(i)
    [] s.kind = "navigation" -> When(s.fk \notin table.failed /\ \A f \in ToSet(table.fks) : f.name # s.fk, i, "fk")
    [] s.kind = "store" -> StoreDiags(i)
    [] s.kind = "key_prefix" -> KeyPrefixDiags(i)
    [] s.kind = "immutable" -> When(ActionChild, i, "child")
    [] s.kind = "audit" -> AuditDiags(i)
    [] s.kind = "state_machine" ->
         Demands(i, s.kind, s.col) \cup {<<i, x>> : x \in {y \in ToSet(s.requires) : Lacks(table, y)}}
    [] OTHER -> {}

EntryDiags(i) == IF Repeats(i) THEN {<<i, "repeats">>} ELSE Judged(i)

-----------------------------------------------------------------------------
(* The state machine of a table.                                           *)

MachineLines == Entries("state_machine")
Form(f) == {i \in MachineLines : entries[i].form = f}
MachineColumn == entries[Min(MachineLines)].col

FirstHistory == {i \in Form("history") : \A j \in Form("history") : i <= j}

\* machineLine(): the identity of a line, never its require list.
MachineKey(s) == <<s.form, s.state, s.to>>

\* An initial, terminal or transition line that is the first of its kind; a line
\* of another column is reported for that column only.
StateLines ==
  {i \in Form("initial") \cup Form("terminal") \cup Form("transition") :
     \/ entries[i].col # MachineColumn
     \/ \A j \in MachineLines : j < i => entries[j].col # MachineColumn \/ MachineKey(entries[j]) # MachineKey(entries[i])}
StatesIn(lines) ==
  {entries[i].state : i \in lines} \cup {entries[i].to : i \in lines \cap Form("transition")}
States == StatesIn(StateLines)
Initials == {entries[i].state : i \in StateLines \cap Form("initial")}
Terminals == {entries[i].state : i \in StateLines \cap Form("terminal")}
Required == UNION {ToSet(entries[i].requires) : i \in StateLines}

\* A faulty checkLimits() that looks at the limits of a state only once.
LimitDiagsLoose ==
  UNION {When(entries[i].state \notin States, i, "limit state") \cup When(entries[i].count \notin 1..MaxCount, i, "count")
         : i \in Form("limit")}

\* checkLimits().
LimitDiags ==
  UNION {When(entries[i].state \notin States \/ \E j \in Form("limit") : j < i /\ entries[j].state = entries[i].state,
              i, "limit state")
         \cup When(entries[i].count \notin 1..MaxCount, i, "count")
         : i \in Form("limit")}

\* A history column that must have the type of column c of the table.
HistoryColumnDiags(i, h, x, c, mayBeNull) ==
  When(IF HasCol(h, x) THEN ~SameType(Col(h, x), c) \/ (mayBeNull /\ ~Col(h, x).null) ELSE x \notin h.failed, i, x)

Timestamp == [kind |-> "datetime", size |-> 6]

\* A faulty checkHistory() that leaves the other columns alone.
HistoryDiagsOpen(i) ==
  LET s == entries[i]
      h == TableOf(s.table) IN
  IF ~HasTable(s.table) THEN {<<i, "history">>}
  ELSE IF ~HasCol(table, MachineColumn) THEN {}
  ELSE When(\A f \in ToSet(h.fks) : f.cols # <<s.row>> \/ f.table # table.name, i, "row")
       \cup UNION {HistoryColumnDiags(i, h, x, Col(table, MachineColumn), FALSE) : x \in {s.from, s.into}}
       \cup HistoryColumnDiags(i, h, s.at, Timestamp, FALSE)
       \cup UNION {HistoryColumnDiags(i, h, x, Col(table, x), TRUE) : x \in {y \in Required : HasCol(table, y)}}

\* checkHistory(): the history table of the machine's transitions.
HistoryDiags(i) ==
  LET s == entries[i]
      h == TableOf(s.table)
      named == {s.row, s.from, s.into, s.at} \cup Required \cup UNION {ToSet(cols) : cols \in ToSet(h.pks)} IN
  IF ~HasTable(s.table) THEN {<<i, "history">>}
  ELSE IF ~HasCol(table, MachineColumn) THEN {}
  ELSE When(\A f \in ToSet(h.fks) : f.cols # <<s.row>> \/ f.table # table.name, i, "row")
       \cup UNION {HistoryColumnDiags(i, h, x, Col(table, MachineColumn), FALSE) : x \in {s.from, s.into}}
       \cup HistoryColumnDiags(i, h, s.at, Timestamp, FALSE)
       \cup UNION {HistoryColumnDiags(i, h, x, Col(table, x), TRUE) : x \in {y \in Required : HasCol(table, y)}}
       \cup {<<i, c.name>> : c \in {d \in ToSet(h.columns) : d.name \notin named}}
       \cup {<<i, s2.kind>> : s2 \in {s1 \in ToSet(h.settings) : s1.kind \in {"title", "body"}}}

\* checkCheckboxes(): the lines of the machine's column cover its states once.
CheckboxDiags ==
  LET boxes == Entries("checkbox")
      own == {i \in boxes : HasCol(table, entries[i].col) /\ entries[i].col = MachineColumn}
      earlier(i, f) == \E j \in own : j < i /\ entries[j][f] = entries[i][f] IN
  IF boxes = {} THEN {}
  ELSE IF MachineLines = {} THEN {<<Min(boxes), "machine">>}
  ELSE {<<i, entries[i].col>> : i \in {j \in boxes : Lacks(table, entries[j].col)}}
       \cup {<<i, "column">> : i \in {j \in boxes \ own : HasCol(table, entries[j].col)}}
       \cup {<<i, "state">> : i \in {j \in own : entries[j].state \notin States \/ earlier(j, "state")}}
       \cup {<<i, "glyph">> : i \in {j \in own : earlier(j, "glyph")}}
       \cup {<<Min(boxes), x>> : x \in States \ {entries[i].state : i \in own}}

\* checkStateMachineConsistency().
MachineDiags ==
  LET lines == Form("initial") \cup Form("terminal") \cup Form("transition")
      dflt == Col(table, MachineColumn).dflt IN
  CheckboxDiags
  \cup (IF MachineLines = {} THEN {}
        ELSE {<<i, "column">> : i \in {j \in MachineLines : entries[j].col # MachineColumn}}
             \cup {<<i, "history">> : i \in Form("history") \ FirstHistory}
             \cup {<<i, "repeats">> : i \in lines \ StateLines}
             \cup {<<i, "terminal">> : i \in {j \in StateLines : entries[j].form # "terminal" /\ entries[j].state \in Terminals}}
             \cup LimitDiags
             \cup UNION {HistoryDiags(i) : i \in FirstHistory}
             \cup When(HasCol(table, MachineColumn) /\ dflt # "" /\ dflt \notin Initials, Min(MachineLines), "default"))

-----------------------------------------------------------------------------
(* settings().                                                             *)

Init == text \in Texts /\ k = 1 /\ diags = {} /\ pc = "entries"

Entry ==
  /\ pc = "entries" /\ k <= Len(entries)
  /\ diags' = diags \cup EntryDiags(k)
  /\ k' = k + 1
  /\ UNCHANGED <<text, pc>>

Consistency ==
  /\ pc = "entries" /\ k > Len(entries)
  /\ diags' = diags \cup MachineDiags
  /\ pc' = "done"
  /\ UNCHANGED <<text, k>>

Next == Entry \/ Consistency

Spec == Init /\ [][Next]_vars

-----------------------------------------------------------------------------
(* What the renderer writes for an audit setting.                          *)

Names(cols) == [j \in DOMAIN cols |-> cols[j].name]

\* Renderer.history(): the INSERT into the history table, for "insert" or
\* "update", and the INSERT into the tables table.
HistoryInsert(t, a, action) ==
  [into |-> a.into,
   cols |-> <<a.action, a.previous>> \o Names(Recorded(t, a)),
   values |-> <<action, IF action = "update" THEN a.col ELSE "null">> \o Names(Recorded(t, a)),
   tables |-> a.tables]

\* A faulty schema text that keeps the list as it is written.
SchemaLineWritten(t, a) == <<a.into, a.col, a.references, a.action, a.previous, a.tables, a.lists>>

\* settingText() of the schema view and auditExcluded(): the columns that are
\* not recorded, in column order.
SchemaLine(t, a) ==
  <<a.into, a.col, a.references, a.action, a.previous, a.tables,
    Names(SelectSeq(t.columns, LAMBDA c : ~Records(a, c.name)))>>

-----------------------------------------------------------------------------
(* Properties.                                                             *)

\* Types of the judge: it goes through the entries once and reports each rule at
\* an entry it has seen.
TypeOK ==
  /\ text \in Texts
  /\ k \in 1..(Len(entries) + 1)
  /\ pc \in {"entries", "done"}
  /\ \A d \in diags : d[1] \in DOMAIN entries /\ (pc = "entries" => d[1] < k)

\* A table that the other rules accept (DocumentParser, AcceptedIsWhole): no line
\* failed, the columns have different names, an identity column is the primary
\* key, and the keys name columns.
Whole(t) ==
  /\ t.failed = {} /\ ~t.failedKey /\ ~t.failedPrimary
  /\ IsInjective(Names(t.columns))
  /\ \A c \in ToSet(Identity(t)) : c.kind = "i64" /\ ~c.null /\ t.pks = <<<<c.name>>>>
  /\ \A cols \in ToSet(t.pks \o t.uniques \o t.indexes \o t.checks) \cup {f.cols : f \in ToSet(t.fks)} :
       ToSet(cols) \subseteq {c.name : c \in ToSet(t.columns)}
Accepted == pc = "done" /\ diags = {} /\ \A t \in ToSet(tables) : Whole(t)
Audits == {entries[i] : i \in Entries("audit")}

\* A column that takes the value of a column or of a literal.
Holds(h, x, c) == HasCol(h, x) /\ SameType(Col(h, x), c)

\* docs/spec/dbspec.md:291-296 (DBS-88 to DBS-93): the triggers of an accepted
\* audit setting run.  The INSERT of the history row names columns of the history
\* table, each once and with the type of its value, and leaves out the identity
\* and nothing else; the audit record is a row that the column refers to; and the
\* row of the tables table has no other column and the key of its conflict clause.
TriggersRun ==
  Accepted => \A a \in Audits :
    LET insert == HistoryInsert(table, a, "update")
        h == TableOf(a.into)
        audited == Col(table, a.col) IN
    /\ a.into # table.name /\ ~Audited(h)
    /\ IsInjective(insert.cols)
    /\ Holds(h, a.action, [kind |-> "varchar", size |-> 8]) /\ Holds(h, a.previous, audited)
    /\ \A c \in ToSet(Recorded(table, a)) : Holds(h, c.name, c)
    /\ \A c \in ToSet(h.columns) : c.identity <=> c.name \notin ToSet(insert.cols)
    /\ \E key \in {c.name : c \in ToSet(TableOf(a.references).columns)} : Refers(table, a.col, a.references, key)
    /\ a.tables # <<>> =>
         LET x == a.tables[1]
             t == TableOf(x.table) IN
         /\ {c.name : c \in ToSet(t.columns)} = {x.record, x.name}
         /\ t.pks = <<<<x.record, x.name>>>>
         /\ ~Audited(t)

\* docs/spec/dbspec.md:242 (DBS-86): the schema hash "changes exactly when the
\* database must change".  Two accepted audit settings of the same table have the
\* same line in the schema text exactly when their triggers are the same.
SchemaTextMeansTriggers ==
  Accepted => \A a \in Audits, list \in {<<>>} \cup {<<[kw |-> kw, cols |-> cols]>> :
                   kw \in {"exclude", "include"}, cols \in {SetToSeq(S) : S \in SUBSET {c.name : c \in ToSet(table.columns)} \ {{}}}} :
    LET b == [a EXCEPT !.lists = list] IN
    (SchemaLine(table, a) = SchemaLine(table, b)) <=> (HistoryInsert(table, a, "insert") = HistoryInsert(table, b, "insert"))

\* docs/spec/dbspec.md:235-238 (DBS-80 to DBS-83): an accepted state machine can be followed.  A row
\* starts in an initial state, no line leaves a terminal state, every state has
\* one glyph, and the row of a transition fits the history table: every column of
\* it is its key or is named by the line.
MachineFollowed ==
  (Accepted /\ MachineLines # {}) =>
    LET dflt == Col(table, MachineColumn).dflt IN
    /\ \A i \in MachineLines : entries[i].col = MachineColumn
    /\ dflt # "" => dflt \in {entries[i].state : i \in Form("initial")}
    /\ \A i \in Form("initial") \cup Form("transition"), j \in Form("terminal") : entries[i].state # entries[j].state
    /\ Entries("checkbox") # {} =>
         \A x \in StatesIn(Form("initial") \cup Form("transition") \cup Form("terminal")) :
           Cardinality({i \in Entries("checkbox") : entries[i].state = x}) = 1
    /\ \A i \in Form("history") :
         LET s == entries[i]
             h == TableOf(s.table) IN
         /\ \A x \in {s.from, s.into} : Holds(h, x, Col(table, MachineColumn))
         /\ \A c \in ToSet(h.columns) :
              \/ c.name \in {s.row, s.from, s.into, s.at} \cup ToSet(h.pks[1])
              \/ \E j \in MachineLines : c.name \in ToSet(entries[j].requires)

\* settingIdentity() of parse.ts: the identity of a setting "that its repeat rule
\* makes unique" (parse.ts:351).  No two settings of an accepted table have the
\* same declaration position path.
PathOf(s) ==
  CASE s.kind \in {"codec", "markdown", "blind_index"} -> <<s.kind, s.col>>
    [] s.kind = "navigation" -> <<s.kind, s.fk>>
    [] s.kind = "checkbox" -> <<s.kind, s.col, s.state>>
    [] s.kind = "state_machine" /\ s.form = "transition" -> <<s.kind, s.form, s.state, s.to>>
    [] s.kind = "state_machine" /\ s.form = "history" -> <<s.kind, s.form>>
    [] s.kind = "state_machine" /\ s.form \notin {"transition", "history"} -> <<s.kind, s.form, s.state>>
    [] OTHER -> <<s.kind>>
PathsUnique == Accepted => \A i, j \in DOMAIN entries : PathOf(entries[i]) = PathOf(entries[j]) => i = j
=============================================================================
