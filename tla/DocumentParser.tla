--------------------------- MODULE DocumentParser ---------------------------
(***************************************************************************)
(* Reading one dbspec document (DocumentParser of dbspec/parse.ts).  The   *)
(* lines are read once, in order, by a reader that knows only the block it *)
(* is in; a line that cannot be read is abandoned with one diagnostic and  *)
(* leaves a mark, the name or the kind of what it would have declared.     *)
(* The whole document is judged when the last line has been read, and the  *)
(* marks keep a line from being reported again by everything that refers   *)
(* to it.  A line is a record of what its words say and of how it fails.   *)
(***************************************************************************)
EXTENDS Integers, Sequences, FiniteSets, SequencesExt

CONSTANTS
  Texts,            \* the texts to read
  LinesOf(_),       \* the lines of a text
  Documents,        \* the documents of the set by name: whether each is valid,
                    \* its tables and its constraint names
  Malformed,        \* the names that do not match the name rule
  Chars,            \* the characters of each varchar type
  MaxKeyColumns, MaxKeyChars,   \* MAX_KEY_COLUMNS, MAX_KEY_VARCHAR
  MaxTables, MaxTableColumns, MaxColumns, MaxForeignKeys

VARIABLES text, n, p, pc

vars == <<text, n, p, pc>>

Own == "own"    \* the name of this document
None == "none"

ConstraintKinds == {"primary", "unique", "index", "foreign", "check"}
WellFormed(name) == name \notin Malformed

\* How a line fails: a character that starts no token (lex), an error at the
\* place of its name (nameless), before the rest of the line is read (early) or
\* after it (late).
Broken(l) == l.form # "ok"
Named(l) == l.form # "nameless"

NewTable(l, i) ==
  [name |-> IF Named(l) THEN l.name ELSE None, line |-> i, named |-> Named(l), headerFailed |-> Broken(l),
   columns |-> <<>>, pks |-> <<>>, uniques |-> <<>>, indexes |-> <<>>, fks |-> <<>>, checks |-> {},
   settings |-> <<>>, hasSettings |-> FALSE, phase |-> 0, identity |-> FALSE,
   failed |-> {}, failedPrimary |-> FALSE, failedKey |-> FALSE, failedLines |-> 0]

Start ==
  [state |-> "top", phase |-> 0, uses |-> <<>>, tables |-> <<>>, diagrams |-> <<>>, failed |-> {},
   constraints |-> {}, diags |-> {}, syntaxLine |-> 0, open |-> 0, detached |-> FALSE, stopped |-> FALSE,
   columnCount |-> 0, fkCount |-> 0]

\* The lines before the first encoding error are read; the rest is not.
EncodingLine(t) == SelectInSeq(t, LAMBDA l : l.k = "encoding")
Lines(t) == IF EncodingLine(t) = 0 THEN t ELSE SubSeq(t, 1, EncodingLine(t) - 1)

-----------------------------------------------------------------------------
(* Reporting.                                                              *)

\* A diagnostic: its rule, its line and the token it points at.
At(q, rule, i, tok) == [q EXCEPT !.diags = @ \cup {[rule |-> rule, line |-> i, at |-> tok]}]

\* A faulty report() that lets a line have several syntax diagnostics.
SyntaxAll(q, i, tok) == [At(q, "syntax", i, tok) EXCEPT !.syntaxLine = i]

\* report() of a syntax error: a line has at most one.
Syntax(q, i, tok) ==
  IF q.syntaxLine = i THEN q ELSE [At(q, "syntax", i, tok) EXCEPT !.syntaxLine = i]

Stop(q, rule, i) == [At(q, rule, i, "stop") EXCEPT !.stopped = TRUE]

Name(q, name, i) == IF WellFormed(name) THEN q ELSE At(q, "name.format", i, name)
Names(q, names, i) == FoldLeft(LAMBDA r, name : Name(r, name, i), q, names)

\* keepSyntaxSince(): of what was reported since q0, only the syntax errors stay.
KeepSyntaxSince(q0, q) == [q EXCEPT !.diags = q0.diags \cup {d \in @ : d.rule = "syntax"}]

ConstraintName(q, name, i) ==
  IF ~WellFormed(name) THEN Name(q, name, i)
  ELSE IF \E c \in q.constraints : c.name = name THEN At(q, "name.duplicate", i, name)
  ELSE [q EXCEPT !.constraints = @ \cup {[name |-> name, line |-> i]}]

\* The table whose block is read.
Table(q) == q.tables[Len(q.tables)]
WithTable(q, t) == [q EXCEPT !.tables[Len(q.tables)] = t]

-----------------------------------------------------------------------------
(* The lines.                                                              *)

\* use(): a use line that fails leaves the names of its tables as failed names.
Use(q, l, i) ==
  IF Broken(l)
  THEN Syntax([q EXCEPT !.failed = @ \cup ToSet(l.cols)], i, "use")
  ELSE LET r == Names(Name(q, l.name, i), l.cols, i) IN
       [r EXCEPT !.failed = @ \ ToSet(l.cols),
                 !.uses = Append(@, [doc |-> l.name, tables |-> l.cols, line |-> i])]

TableHeader(q, l, i) ==
  IF Len(q.tables) >= MaxTables THEN Stop(q, "limit", i)
  ELSE LET r == [q EXCEPT !.tables = Append(@, NewTable(l, i)), !.state = "table"]
           s == IF Named(l) THEN Name(r, l.name, i) ELSE r IN
       IF Broken(l) THEN Syntax(s, i, "table") ELSE s

DiagramHeader(q, l, i) ==
  LET r == [q EXCEPT !.state = "diagram",
                     !.diagrams = Append(@, [name |-> l.name, named |-> Named(l), line |-> i, entries |-> <<>>])]
      s == IF ~Named(l) THEN r
           ELSE IF WellFormed(l.name) /\ \E d \in ToSet(q.diagrams) : d.named /\ d.name = l.name
           THEN At(r, "name.duplicate", i, l.name)
           ELSE Name(r, l.name, i) IN
  IF Broken(l) THEN Syntax(s, i, "diagram") ELSE s

\* What column() says of a column: its name and type, identity and default.
ColumnDiags(t, l) ==
  {x \in {<<"name.format", l.name>>} : ~WellFormed(l.name)}
  \cup {x \in {<<"type", "type">>} : l.type = None}
  \cup {x \in {<<"column", "identity">>} : l.identity /\ (l.type \notin {None, "i64"} \/ l.null \/ t.identity)}
  \cup {x \in {<<"column", "default">>} : /\ l.default # None
                                          /\ l.identity \/ l.type \in {"text", "bytes"} \/ (l.type # None /\ l.default = "unfit")}
  \cup {x \in {<<"name.duplicate", l.name>>} : WellFormed(l.name) /\ \E c \in ToSet(t.columns) : c.name = l.name}

\* column(): a line that fails late has declared its column already.
Column(q, l, i) ==
  LET t == Table(q) IN
  IF ~Named(l) \/ l.form = "early" THEN Syntax(q, i, "column")
  ELSE LET r == [q EXCEPT !.columnCount = @ + 1] IN
       IF Len(t.columns) >= MaxTableColumns \/ r.columnCount > MaxColumns THEN Stop(r, "limit", i)
       ELSE LET c == [name |-> l.name, type |-> l.type, null |-> l.null, identity |-> l.identity, line |-> i]
                s == WithTable(r, [t EXCEPT !.columns = Append(@, c), !.identity = @ \/ l.identity])
                u == [s EXCEPT !.diags = @ \cup {[rule |-> d[1], line |-> i, at |-> d[2]] : d \in ColumnDiags(t, l)}] IN
            IF Broken(l) THEN Syntax(u, i, "column") ELSE u

\* failColumnLine(): the first word of the line is the name that failed.
FailColumnLine(q, l) ==
  LET t == Table(q) IN
  WithTable(q, [t EXCEPT !.failedLines = @ + 1, !.failed = IF Named(l) THEN @ \cup {l.name} ELSE @])

\* A line of another kind, read as a column: its first word is the name.
FirstWord(l) ==
  CASE l.k \in {"column", "placement"} -> l.name
    [] l.k = "setting" -> l.what
    [] OTHER -> l.k
AsColumn(l) ==
  IF l.k = "column" THEN l
  ELSE [l EXCEPT !.name = FirstWord(l), !.form = IF l.k = "placement" /\ ~Named(l) THEN "nameless" ELSE "late",
                 !.type = None, !.default = None, !.identity = FALSE]

\* The column branch of parse(): a line with a syntax error keeps only that, and
\* the order is judged of a line that was read.
ColumnLine(q, l, i) ==
  LET r == Column(q, l, i) IN
  IF r.syntaxLine = i THEN FailColumnLine(KeepSyntaxSince(q, r), l)
  ELSE IF Table(q).phase > 0 /\ ~r.stopped THEN At(r, "order", i, "column")
  ELSE r

PrimaryKey(q, l, i) ==
  LET t == Table(q) IN
  IF Broken(l) THEN Syntax(WithTable(q, [t EXCEPT !.failedPrimary = TRUE]), i, "primary")
  ELSE WithTable(Names(q, l.cols, i), [t EXCEPT !.pks = Append(@, [name |-> "primary", cols |-> l.cols, line |-> i])])

\* A faulty constraint() that forgets the failed key.
KeyOrIndexForgetting(q, l, i) ==
  LET t == Table(q)
      key == [name |-> l.name, cols |-> l.cols, line |-> i] IN
  IF Broken(l) THEN Syntax(q, i, l.k)
  ELSE LET r == Names(ConstraintName(q, l.name, i), l.cols, i) IN
       IF l.k = "unique" THEN WithTable(r, [t EXCEPT !.uniques = Append(@, key)])
       ELSE WithTable(r, [t EXCEPT !.indexes = Append(@, key)])

KeyOrIndex(q, l, i) ==
  LET t == Table(q)
      key == [name |-> l.name, cols |-> l.cols, line |-> i] IN
  IF Broken(l) THEN Syntax(WithTable(q, [t EXCEPT !.failedKey = TRUE]), i, l.k)
  ELSE LET r == Names(ConstraintName(q, l.name, i), l.cols, i) IN
       IF l.k = "unique" THEN WithTable(r, [t EXCEPT !.uniques = Append(@, key)])
       ELSE WithTable(r, [t EXCEPT !.indexes = Append(@, key)])

\* A faulty foreignKeyLine() that admits one foreign key too many.
ForeignKeyLineOver(q, l, i) ==
  LET t == Table(q)
      marked == WithTable(q, [t EXCEPT !.failed = IF Named(l) THEN @ \cup {l.name} ELSE @]) IN
  IF Broken(l) THEN Syntax(marked, i, "foreign")
  ELSE LET r == IF l.action = "unknown" THEN At(q, "foreign_key", i, "action") ELSE q IN
       IF r.fkCount > MaxForeignKeys THEN Stop(r, "limit", i)
       ELSE LET s == Names(ConstraintName(r, l.name, i), l.cols \o <<l.table>> \o l.refs, i) IN
            WithTable([s EXCEPT !.fkCount = @ + 1],
              [t EXCEPT !.fks = Append(@, [name |-> l.name, cols |-> l.cols, table |-> l.table, refs |-> l.refs,
                                           action |-> l.action, line |-> i])])

\* foreignKeyLine(); a line that fails leaves its name.
ForeignKeyLine(q, l, i) ==
  LET t == Table(q)
      marked == WithTable(q, [t EXCEPT !.failed = IF Named(l) THEN @ \cup {l.name} ELSE @]) IN
  IF Broken(l) THEN Syntax(marked, i, "foreign")
  ELSE LET r == IF l.action = "unknown" THEN At(q, "foreign_key", i, "action") ELSE q IN
       IF r.fkCount >= MaxForeignKeys THEN Stop(r, "limit", i)
       ELSE LET s == Names(ConstraintName(r, l.name, i), l.cols \o <<l.table>> \o l.refs, i) IN
            WithTable([s EXCEPT !.fkCount = @ + 1],
              [t EXCEPT !.fks = Append(@, [name |-> l.name, cols |-> l.cols, table |-> l.table, refs |-> l.refs,
                                           action |-> l.action, line |-> i])])

CheckLine(q, l, i) ==
  IF Broken(l) THEN Syntax(q, i, "check")
  ELSE LET t == Table(q) IN
       WithTable(ConstraintName(q, l.name, i),
                 [t EXCEPT !.checks = @ \cup {[name |-> l.name, cols |-> l.cols, line |-> i]}])

\* constraint(), and the order of the table's lines.
Constraint(q, l, i) ==
  LET t == Table(q)
      r == IF t.phase = 2 THEN At(q, "order", i, l.k) ELSE WithTable(q, [t EXCEPT !.phase = 1]) IN
  CASE l.k = "primary" -> PrimaryKey(r, l, i)
    [] l.k \in {"unique", "index"} -> KeyOrIndex(r, l, i)
    [] l.k = "foreign" -> ForeignKeyLine(r, l, i)
    [] l.k = "check" -> CheckLine(r, l, i)

\* openSettingsBlock(): a second block is read and not kept.
OpenSettings(q, l, i) ==
  LET t == Table(q)
      r == IF t.hasSettings /\ ~Broken(l) /\ ~l.lex THEN At(q, "order", i, "settings") ELSE q
      s == WithTable([r EXCEPT !.state = "settings", !.open = i, !.detached = t.hasSettings],
                     [t EXCEPT !.hasSettings = TRUE, !.phase = 2]) IN
  IF Broken(l) /\ ~l.lex THEN Syntax(s, i, "settings") ELSE s

\* setting(): a setting that was read joins its block.
SettingLine(q, l, i) ==
  IF l.lex THEN q
  ELSE IF Broken(l) THEN Syntax(q, i, "setting")
  ELSE IF l.what = "unknown" THEN At(q, "setting", i, "setting")
  ELSE LET r == Names(q, l.cols, i)
           t == Table(q) IN
       IF q.detached THEN r
       ELSE WithTable(r, [t EXCEPT !.settings = Append(@, [what |-> l.what, cols |-> l.cols, line |-> i])])

\* A line of another kind in a settings block.
AsSetting(l) ==
  IF l.k = "setting" THEN l
  ELSE [l EXCEPT !.what = "unknown", !.form = IF l.k \in {"column", "placement"} /\ ~Named(l) THEN "early" ELSE "ok"]

Placement(q, l, i) ==
  IF Broken(l) THEN Syntax(q, i, "placement")
  ELSE LET r == Name(q, l.name, i)
           s == IF l.far THEN At(r, "diagram", i, "coordinate") ELSE r IN
       [s EXCEPT !.diagrams[Len(s.diagrams)].entries = Append(@, [table |-> l.name, line |-> i])]

\* lexedTableLine(): only the first word of the line and its name are used.
LexedTableLine(q, l, i) ==
  LET t == Table(q) IN
  CASE l.k = "settings" -> OpenSettings(q, l, i)
    [] l.k = "primary" -> WithTable(q, [t EXCEPT !.failedPrimary = TRUE])
    [] l.k \in {"unique", "index"} -> WithTable(q, [t EXCEPT !.failedKey = TRUE])
    [] l.k = "foreign" -> WithTable(q, [t EXCEPT !.failed = IF Named(l) THEN @ \cup {l.name} ELSE @])
    [] l.k = "check" -> q
    [] OTHER -> FailColumnLine(q, AsColumn(l))

\* A line that closes a block; words after the brace are an error of that line.
CloseLine(q, l, i, next) ==
  LET r == [q EXCEPT !.state = next] IN IF Broken(l) THEN Syntax(r, i, "close") ELSE r

TopLine(q, l, i) ==
  CASE l.k = "use" ->
         Use(IF q.phase > 1 THEN At(q, "order", i, "use") ELSE [q EXCEPT !.phase = 1], l, i)
    [] l.k = "table" ->
         TableHeader(IF q.phase > 2 THEN At(q, "order", i, "table") ELSE [q EXCEPT !.phase = 2], l, i)
    [] l.k = "diagram" -> DiagramHeader([q EXCEPT !.phase = 3], l, i)
    [] OTHER -> Syntax(q, i, "top")

\* One turn of the loop of parse().  Within a table or a settings block a line
\* that opens with another word is a column or a setting.
Line(q0, l, i) ==
  LET q == IF l.lex THEN Syntax(q0, i, "lex") ELSE q0 IN
  CASE q.state = "top" -> TopLine(q, l, i)
    [] q.state = "table" ->
         IF l.k = "close" THEN CloseLine(q, l, i, "top")
         ELSE IF l.lex THEN LexedTableLine(q, l, i)
         ELSE IF l.k = "settings" THEN OpenSettings(q, l, i)
         ELSE IF l.k \in ConstraintKinds THEN Constraint(q, l, i)
         ELSE ColumnLine(q, AsColumn(l), i)
    [] q.state = "settings" ->
         IF l.k = "close" THEN CloseLine(q, l, i, "table")
         ELSE SettingLine(q, AsSetting(l), i)
    [] q.state = "diagram" ->
         IF l.k = "close" THEN CloseLine(q, l, i, "top")
         ELSE IF l.lex THEN q
         ELSE Placement(q, IF l.k = "placement" THEN l ELSE [l EXCEPT !.form = "early"], i)

\* The end of parse(): an encoding error stops the document, or the innermost
\* open block is reported.
EndOfText(q, t) ==
  IF q.stopped THEN q
  ELSE IF EncodingLine(t) # 0 THEN Stop(q, "encoding", EncodingLine(t))
  ELSE CASE q.state = "settings" -> At(q, "syntax", q.open, "unclosed")
         [] q.state = "table" -> At(q, "syntax", Table(q).line, "unclosed")
         [] q.state = "diagram" -> At(q, "syntax", q.diagrams[Len(q.diagrams)].line, "unclosed")
         [] OTHER -> q

-----------------------------------------------------------------------------
(* Judging the whole document.                                             *)

NoTable == [known |-> FALSE]
Known(t) == [known |-> TRUE, table |-> t]

\* validate(), the use lines: the first line of each document other than this
\* one is resolved.
FirstUses(q) ==
  {u \in DOMAIN q.uses : WellFormed(q.uses[u].doc) /\ \A v \in 1..(u - 1) : q.uses[v].doc # q.uses[u].doc}
Asked(q) == {u \in FirstUses(q) : q.uses[u].doc # Own}
ResolvedUses(q) == {u \in Asked(q) : q.uses[u].doc \in DOMAIN Documents /\ Documents[q.uses[u].doc].valid}
Target(q, u) == Documents[q.uses[u].doc]
TargetTables(q, u) == {t \in ToSet(Target(q, u).tables) : t.named}
TableNames(q, u) == {t.name : t \in TargetTables(q, u)}
UsedConstraints(q, us) == UNION {Target(q, u).constraints : u \in us}
UsedTableNames(q, us) == UNION {TableNames(q, u) : u \in us}

\* The names that the resolved use lines list, in order.
Listed(q) ==
  UNION {{[u |-> u, j |-> j, name |-> q.uses[u].tables[j]] : j \in DOMAIN q.uses[u].tables} : u \in ResolvedUses(q)}
Readable(ws) == {w \in ws : WellFormed(w.name)}
FirstListed(q) ==
  {w \in Readable(Listed(q)) :
     \A v \in Listed(q) : v.name = w.name => v.u > w.u \/ (v.u = w.u /\ v.j >= w.j)}
UsedNames(q) == {w.name : w \in FirstListed(q)}

D(rule, i, tok) == [rule |-> rule, line |-> i, at |-> tok]
UseLine(q, u) == q.uses[u].line

UseDiags(q) ==
  LET repeated == {u \in DOMAIN q.uses : WellFormed(q.uses[u].doc)} \ FirstUses(q)
      refused == FirstUses(q) \ ResolvedUses(q)
      earlier(u) == {v \in ResolvedUses(q) : v < u}
      clash(u) == (Target(q, u).constraints \cap (UsedConstraints(q, earlier(u)) \cup UsedTableNames(q, earlier(u))))
                  \cup (TableNames(q, u) \cap UsedConstraints(q, earlier(u))) IN
  {D("name.duplicate", UseLine(q, u), "document") : u \in repeated}
  \cup {D("use", UseLine(q, u), "document") : u \in refused}
  \cup UNION {{D("name.duplicate", UseLine(q, u), x) : x \in clash(u)} : u \in ResolvedUses(q)}
  \cup {D("name.duplicate", UseLine(q, w.u), w.name) : w \in Readable(Listed(q)) \ FirstListed(q)}
  \cup {D("use", UseLine(q, w.u), w.name) : w \in {v \in FirstListed(q) : v.name \notin TableNames(q, v.u)}}

\* The tables of the document by position: those that own their name, and the
\* names a table may refer to.
NamedTables(q) == {k \in DOMAIN q.tables : q.tables[k].named /\ WellFormed(q.tables[k].name)}
OwnTables(q) ==
  {k \in NamedTables(q) : /\ q.tables[k].name \notin UsedNames(q)
                          /\ \A m \in NamedTables(q) : m < k => q.tables[m].name # q.tables[k].name}
OwnNames(q) == {q.tables[k].name : k \in OwnTables(q)}

\* The tables of a used document that fails are failed names.
FailedNames(q) == q.failed \cup UNION {ToSet(q.uses[u].tables) : u \in Asked(q) \ ResolvedUses(q)}
Available(q) ==
  [x \in UsedNames(q) \cup OwnNames(q) \cup FailedNames(q) |->
     IF x \in UsedNames(q)
     THEN LET w == CHOOSE v \in FirstListed(q) : v.name = x IN
          IF x \in TableNames(q, w.u) THEN Known(CHOOSE t \in TargetTables(q, w.u) : t.name = x) ELSE NoTable
     ELSE IF x \in OwnNames(q) THEN Known(q.tables[CHOOSE k \in OwnTables(q) : q.tables[k].name = x])
     ELSE NoTable]

NameDiags(q) ==
  LET used == UsedConstraints(q, ResolvedUses(q))
      usedTables == UsedTableNames(q, ResolvedUses(q))
      later(k) == LET lines == {q.tables[k].line} \cup {UseLine(q, w.u) : w \in {v \in FirstListed(q) : v.name = q.tables[k].name}} IN
                  CHOOSE i \in lines : \A j \in lines : j <= i IN
  {D("name.duplicate", q.tables[k].line, "constraint") :
     k \in {m \in OwnTables(q) : q.tables[m].name \in used /\ ~q.tables[m].headerFailed}}
  \cup {D("name.duplicate", later(k), q.tables[k].name) : k \in {m \in NamedTables(q) \ OwnTables(q) : ~q.tables[m].headerFailed}}
  \cup {D("name.duplicate", c.line, c.name) : c \in {d \in q.constraints : d.name \in OwnNames(q) \cup used \cup usedTables}}

\* lookup(): a column of a table, and the references to report.
HasColumn(t, x) == WellFormed(x) /\ \E c \in ToSet(t.columns) : c.name = x
ColumnOf(t, x) == SelectSeq(t.columns, LAMBDA c : c.name = x)[1]

Unknown(t, xs) == {x \in xs : WellFormed(x) /\ ~HasColumn(t, x) /\ x \notin t.failed}

\* keyLike().
KeyDiags(t, key, primary) ==
  LET cols == SelectSeq(key.cols, LAMBDA x : HasColumn(t, x))
      found == {ColumnOf(t, x) : x \in ToSet(cols)}
      width == FoldLeft(LAMBDA sum, c : sum + (IF c.type \in DOMAIN Chars THEN Chars[c.type] ELSE 0), 0, SetToSeq(found)) IN
  {D("key", key.line, x) : x \in Unknown(t, ToSet(key.cols))}
  \cup {D("key", key.line, "repeats") : x \in {y \in {key} : ~IsInjective(cols)}}
  \cup {D("key", key.line, c.name) : c \in {d \in found : d.type \in {"text", "bytes"} \/ (primary /\ d.null)}}
  \cup {D("key", key.line, "limit") : x \in {y \in {key} : Len(y.cols) > MaxKeyColumns \/ width > MaxKeyChars}}

Leads(cols, key) == Len(key.cols) >= Len(cols) /\ SubSeq(key.cols, 1, Len(cols)) = cols

\* A faulty foreignKeyKeyChecks() that leaves the index out.
ForeignKeyKeyDiagsFree(t, fk) ==
  LET rigid == \E x \in ToSet(fk.cols) : HasColumn(t, x) /\ ~ColumnOf(t, x).null IN
  {D("foreign_key", fk.line, "set_null") : x \in {y \in {fk} : y.action = "set_null" /\ rigid}}

\* foreignKeyKeyChecks().
ForeignKeyKeyDiags(t, fk) ==
  LET resolved == (\A x \in ToSet(fk.cols) : HasColumn(t, x)) /\ IsInjective(fk.cols)
      indexed == \E key \in ToSet(t.pks \o t.uniques \o t.indexes) : Leads(fk.cols, key)
      rigid == \E x \in ToSet(fk.cols) : HasColumn(t, x) /\ ~ColumnOf(t, x).null IN
  {D("foreign_key", fk.line, "index") : x \in {y \in {fk} : resolved /\ ~indexed /\ ~t.failedKey /\ ~t.failedPrimary}}
  \cup {D("foreign_key", fk.line, "set_null") : x \in {y \in {fk} : y.action = "set_null" /\ rigid}}

\* The rules of a foreign key whose table is known: its columns, the number of
\* columns, the key it refers to and the types.
TargetDiags(t, fk, target) ==
  LET known == \A x \in ToSet(fk.refs) : HasColumn(target, x)
      keys == {key.cols : key \in ToSet(target.uniques) \cup {k \in ToSet(target.pks) : k = target.pks[1]}}
      differ(j) == /\ HasColumn(t, fk.cols[j])
                   /\ LET a == ColumnOf(t, fk.cols[j]).type
                          b == ColumnOf(target, fk.refs[j]).type IN a # None /\ b # None /\ a # b IN
  {D("foreign_key", fk.line, x) : x \in Unknown(target, ToSet(fk.refs))}
  \cup (IF Len(fk.cols) # Len(fk.refs) THEN {D("foreign_key", fk.line, "count")}
        ELSE IF ~known THEN {}
        ELSE {D("foreign_key", fk.line, "key") :
                x \in {y \in {fk} : y.refs \notin keys /\ ~target.failedKey /\ ~target.failedPrimary}}
             \cup {D("foreign_key", fk.line, "type") : x \in {y \in {fk} : \E j \in DOMAIN y.cols : differ(j)}})

\* foreignKey().
ForeignKeyDiags(q, t, fk) ==
  LET available == Available(q) IN
  {D("foreign_key", fk.line, x) : x \in Unknown(t, ToSet(fk.cols))}
  \cup {D("foreign_key", fk.line, "repeats") : x \in {y \in {fk} : ~IsInjective(SelectSeq(y.cols, LAMBDA c : HasColumn(t, c)))}}
  \cup {D("foreign_key", fk.line, "table") : x \in {y \in {fk} : WellFormed(y.table) /\ y.table \notin DOMAIN available}}
  \cup (IF /\ WellFormed(fk.table) /\ fk.table \in DOMAIN available
           /\ available[fk.table].known /\ ~available[fk.table].table.headerFailed
        THEN TargetDiags(t, fk, available[fk.table].table) ELSE {})
  \cup ForeignKeyKeyDiags(t, fk)

Propagates(fk) == fk.action \in {"cascade", "set_null"}

\* The columns of a check; it reports only its first diagnostic.
CheckDiags(t, c) ==
  LET banned == UNION {ToSet(fk.cols) : fk \in {f \in ToSet(t.fks) : Propagates(f)}}
      bad(x) == \/ ~WellFormed(x) \/ x \in Unknown(t, {x})
                \/ HasColumn(t, x) /\ (x \in banned \/ ColumnOf(t, x).type = "bytes")
      first == SelectInSeq(c.cols, bad) IN
  IF first = 0 THEN {}
  ELSE {D(IF WellFormed(c.cols[first]) THEN "check" ELSE "name.format", c.line, c.cols[first])}

\* settings(), for the settings that refer to the table's own lines.
SettingDiags(t) ==
  UNION {LET s == t.settings[j] IN
         IF \E i \in 1..(j - 1) : t.settings[i].what = s.what /\ (s.what = "navigation" => t.settings[i].cols[1] = s.cols[1])
         THEN {D("setting", s.line, "repeats")}
         ELSE IF s.what = "navigation"
         THEN {D("setting", s.line, x) : x \in {y \in {s.cols[1]} : /\ WellFormed(y) /\ y \notin t.failed
                                                                  /\ \A fk \in ToSet(t.fks) : fk.name # y}}
         ELSE {D("setting", s.line, x) : x \in Unknown(t, ToSet(s.cols))}
              \cup {D("setting", s.line, "column") : x \in {y \in {s} : ~IsInjective(SelectSeq(y.cols, LAMBDA c : HasColumn(t, c)))}}
         : j \in DOMAIN t.settings}

\* validateTable().
TableDiags(q, t) ==
  LET identity == SelectSeq(t.columns, LAMBDA c : c.identity)
      only == t.pks # <<>> /\ t.pks[1].cols = <<identity[1].name>>
      readable == t.pks # <<>> /\ \A x \in ToSet(t.pks[1].cols) : WellFormed(x) /\ x \notin t.failed IN
  {D("column", t.line, "columns") : x \in {y \in {t} : y.columns = <<>> /\ y.failedLines = 0}}
  \cup {D("key", t.line, "primary") : x \in {y \in {t} : y.pks = <<>> /\ ~y.failedPrimary}}
  \cup {D("key", t.pks[k].line, "second") : k \in DOMAIN t.pks \ {1}}
  \cup UNION {KeyDiags(t, t.pks[k], TRUE) : k \in DOMAIN t.pks \cap {1}}
  \cup UNION {KeyDiags(t, key, FALSE) : key \in ToSet(t.uniques \o t.indexes)}
  \cup (IF /\ identity # <<>>
           /\ \/ t.pks = <<>> /\ ~t.failedPrimary
              \/ readable /\ ~only
        THEN {D("column", identity[1].line, "identity key")} ELSE {})
  \cup UNION {ForeignKeyDiags(q, t, fk) : fk \in ToSet(t.fks)}
  \cup UNION {CheckDiags(t, c) : c \in t.checks}
  \cup SettingDiags(t)

DiagramDiags(q, d) ==
  LET at(j) == d.entries[j].table IN
  {D("diagram", d.entries[j].line, at(j)) :
     j \in {k \in DOMAIN d.entries : /\ WellFormed(at(k))
                                     /\ at(k) \notin DOMAIN Available(q) \/ \E m \in 1..(k - 1) : at(m) = at(k)}}

\* validate(), of a document that was not stopped.
Judged(q) ==
  IF q.stopped THEN q
  ELSE [q EXCEPT !.diags = @ \cup UseDiags(q) \cup NameDiags(q)
                           \cup UNION {TableDiags(q, t) : t \in ToSet(q.tables)}
                           \cup UNION {DiagramDiags(q, d) : d \in ToSet(q.diagrams)}]

-----------------------------------------------------------------------------
(* parseText().                                                            *)

content == LinesOf(text)

Init == text \in Texts /\ n = 1 /\ p = Start /\ pc = "header"

\* header(): a first line that is not exactly the header stops the document.
Header ==
  /\ pc = "header"
  /\ LET l == content[1] IN
     p' = IF l.k = "encoding" \/ (l.k = "header" /\ ~Broken(l) /\ ~l.lex) THEN p ELSE Stop(p, "header", 1)
  /\ n' = 2
  /\ pc' = "lines"
  /\ UNCHANGED text

More == n <= Len(Lines(content)) /\ ~p.stopped

Read ==
  /\ pc = "lines" /\ More
  /\ p' = Line(p, content[n], n)
  /\ n' = n + 1
  /\ UNCHANGED <<text, pc>>

Finish ==
  /\ pc = "lines" /\ ~More
  /\ p' = Judged(EndOfText(p, content))
  /\ pc' = "done"
  /\ UNCHANGED <<text, n>>

Next == Header \/ Read \/ Finish

Spec == Init /\ [][Next]_vars

-----------------------------------------------------------------------------
(* Properties.                                                             *)

\* Types of the reader: it is in one block of the document at a time, it goes
\* through the text once, and the limits bound what it keeps.
TypeOK ==
  /\ p.state \in {"top", "table", "settings", "diagram"}
  /\ n \in 1..(Len(content) + 1)
  /\ pc \in {"header", "lines", "done"}
  /\ Len(p.tables) <= MaxTables /\ p.fkCount <= MaxForeignKeys
  /\ \A t \in ToSet(p.tables) : Len(t.columns) <= MaxTableColumns
  /\ p.state \in {"table", "settings"} => p.tables # <<>>
  /\ \A d \in p.diags : d.line \in 1..Len(content)

\* What the reader makes of a whole text.
Parse(t) ==
  Judged(EndOfText(FoldLeft(LAMBDA q, i : IF q.stopped THEN q ELSE Line(q, t[i], i), Start,
                            [i \in 1..(Len(Lines(t)) - 1) |-> i + 1]), t))

\* docs/spec/dbspec.md:463 (DBS-153): "a line has at most one syntax diagnostic",
\* whatever is wrong with it and whatever block the reader took it to be in.  A
\* block that is never closed is reported at the line that opened it.
OneSyntaxPerLine ==
  \A d, e \in p.diags :
    (d.rule = "syntax" /\ e.rule = "syntax" /\ d.line = e.line /\ "unclosed" \notin {d.at, e.at}) => d = e

Repaired(t) == [i \in DOMAIN t |-> [t[i] EXCEPT !.form = "ok", !.lex = FALSE]]
Failing(t) == {i \in DOMAIN t : Broken(t[i]) \/ t[i].lex}

\* docs/spec/dbspec.md:463 (DBS-153): "a reference to a column or table whose own
\* line failed reports nothing more", and a failed key hides the rules that need
\* it.  A text that is valid but for lines that cannot be read to their end has
\* one syntax diagnostic for each such line and no other diagnostic.
FailedLinesSilent ==
  (pc = "done" /\ 1 \notin Failing(content) /\ (\A i \in Failing(content) : Named(content[i])) /\ Parse(Repaired(content)).diags = {})
  => /\ \A d \in p.diags : d.rule = "syntax"
     /\ {d.line : d \in p.diags} = Failing(content)

Count(t, kinds) == Cardinality({i \in DOMAIN t : t[i].k \in kinds})
Total(f(_)) == FoldLeft(LAMBDA sum, t : sum + f(t), 0, p.tables)

\* The keys of a table of the document, or of a table that it uses.
KeyTypes(t, cols) == [j \in DOMAIN cols |-> ColumnOf(t, cols[j]).type]
Reachable == ToSet(p.tables) \cup UNION {{t \in TargetTables(p, u) : t.name \in ToSet(p.uses[u].tables)} : u \in ResolvedUses(p)}

\* A document without a diagnostic is the whole text: every line that declares
\* something is in the model, no two tables or constraints share a name, and
\* every foreign key has an index of its own table and refers to a key of a table
\* that the document defines or uses, with the types of its columns.
AcceptedIsWhole ==
  (pc = "done" /\ p.diags = {}) =>
    /\ Failing(content) = {}
    /\ p.state = "top"
    /\ Total(LAMBDA t : Len(t.columns)) = Count(content, {"column"})
    /\ Total(LAMBDA t : Len(t.settings)) = Count(content, {"setting"})
    /\ Total(LAMBDA t : Len(t.uniques \o t.indexes)) = Count(content, {"unique", "index"})
    /\ \A t, u \in Reachable : t.name = u.name => t = u
    /\ \A c \in p.constraints : c.name \notin UsedConstraints(p, ResolvedUses(p)) \cup {t.name : t \in Reachable}
    /\ \A t \in ToSet(p.tables) :
         /\ Len(t.pks) = 1
         /\ \A fk \in ToSet(t.fks) :
              /\ \E key \in ToSet(t.pks \o t.uniques \o t.indexes) : Leads(fk.cols, key)
              /\ \E u \in Reachable :
                   /\ u.name = fk.table
                   /\ \E key \in ToSet(u.pks \o u.uniques) : key.cols = fk.refs
                   /\ KeyTypes(t, fk.cols) = KeyTypes(u, fk.refs)
=============================================================================
