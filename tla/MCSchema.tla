------------------------------ MODULE MCSchema ------------------------------
(***************************************************************************)
(* The parts of dbspec checked in one run: the file lock of a plan         *)
(* command, which has the variables of PlanLock, the document parser,      *)
(* the settings of a table, check predicates, columns, and the             *)
(* introspection of a database.  They share no state: a behaviour chooses  *)
(* one part, whose variables are the first of v1 to v7; the others stay    *)
(* Unused, and the file stays free.                                        *)
(***************************************************************************)
EXTENDS PlanLock, FiniteSets, SequencesExt

CONSTANTS
  MaxKeyColumns, MaxKeyChars, MaxTables, MaxTableColumns, MaxColumns, MaxForeignKeys,   \* DocumentParser
  MaxCount,                 \* TableSettings
  Dialects, MaxPasses       \* CheckExpression, ColumnForms and Introspection

Unused == "unused"

VARIABLES part, v1, v2, v3, v4, v5, v6, v7

after4 == <<v5, v6, v7>>
after5 == <<v6, v7>>
slots == <<v1, v2, v3, v4, after4>>
all == <<fileVars, serverOnly, part, slots>>

-----------------------------------------------------------------------------
(* The pragmas that the connections of a file can have; no server.         *)

InNormal == [foreign_keys |-> 1, legacy_alter_table |-> 1, busy_timeout |-> 100, locking_mode |-> "normal"]
Callers == {InNormal, [foreign_keys |-> 0, legacy_alter_table |-> 0, busy_timeout |-> 0, locking_mode |-> "exclusive"]}
NoHome == [c \in {} |-> c]

-----------------------------------------------------------------------------
(***************************************************************************)
(* The texts that DocumentParser is checked with: a document that uses     *)
(* every line of the language, with one line, or two, made wrong: cut      *)
(* short, badly encoded, left out, repeated, exchanged or renamed.         *)
(***************************************************************************)
DocBlank ==
  [k |-> "close", name |-> "none", cols |-> <<>>, table |-> "none", refs |-> <<>>, action |-> "restrict",
   type |-> "none", null |-> FALSE, identity |-> FALSE, default |-> "none", what |-> "none",
   far |-> FALSE, form |-> "ok", lex |-> FALSE]
DocLine(kd, name) == [DocBlank EXCEPT !.k = kd, !.name = name]
DocCol(name, type, null) == [DocLine("column", name) EXCEPT !.type = type, !.null = null]
DocKey(kd, name, cols) == [DocLine(kd, name) EXCEPT !.cols = cols]
DocFk(name, cols, table, refs, action) ==
  [DocLine("foreign", name) EXCEPT !.cols = cols, !.table = table, !.refs = refs, !.action = action]

DocBase ==
  << DocLine("header", "own"),
     [DocLine("use", "lib") EXCEPT !.cols = <<"u">>],
     DocLine("table", "a"),
     [DocCol("id", "i64", FALSE) EXCEPT !.identity = TRUE],
     DocCol("code", "v8", FALSE),
     DocKey("primary", "none", <<"id">>),
     DocKey("unique", "a_code", <<"code">>),
     DocLine("close", "none"),
     DocLine("table", "b"),
     DocCol("a", "v8", TRUE),
     DocCol("u", "i64", FALSE),
     DocKey("primary", "none", <<"u">>),
     DocKey("index", "b_a", <<"a">>),
     DocFk("b_to_a", <<"a">>, "a", <<"code">>, "set_null"),
     DocFk("b_to_u", <<"u">>, "u", <<"id">>, "restrict"),
     DocKey("check", "b_ok", <<"u">>),
     DocLine("settings", "none"),
     [DocLine("setting", "none") EXCEPT !.what = "navigation", !.cols = <<"b_to_a">>],
     DocLine("close", "none"),
     DocLine("close", "none"),
     DocLine("diagram", "d"),
     DocLine("placement", "a"),
     DocLine("close", "none") >>

DocEdits ==
  [e : {"nameless", "early", "late", "lex", "lex early", "out", "twice", "swap", "cut"}, i : 1..Len(DocBase), x : {"none"}]
  \cup [e : {"rename"}, i : {2, 3, 5, 9, 13, 14, 22}, x : {"a", "b", "u", "id", "lib_x", "b_a", "Bad"}]
DocEdited(t, d) ==
  IF d.i > Len(t) THEN t
  ELSE CASE d.e \in {"nameless", "early", "late"} -> [t EXCEPT ![d.i].form = d.e]
    [] d.e = "lex" -> [t EXCEPT ![d.i].lex = TRUE]
    [] d.e = "lex early" -> [t EXCEPT ![d.i].lex = TRUE, ![d.i].form = "early"]
    [] d.e = "out" -> IF d.i = 1 THEN t ELSE RemoveAt(t, d.i)
    [] d.e = "twice" -> InsertAt(t, d.i + 1, t[d.i])
    [] d.e = "swap" -> IF d.i < Len(t) THEN [t EXCEPT ![d.i] = t[d.i + 1], ![d.i + 1] = t[d.i]] ELSE t
    [] d.e = "rename" -> [t EXCEPT ![d.i].name = d.x]
    [] d.e = "cut" -> [t EXCEPT ![d.i] = DocLine("encoding", "none")]

\* A text is named by its edits.
DocTexts ==
  {<<>>} \cup {<<d>> : d \in DocEdits} \cup {<<d, e>> : d \in {x \in DocEdits : x.e \in {"late", "twice"} /\ x.i % 2 = 1}, e \in DocEdits}
DocLines(ds) == FoldLeft(DocEdited, DocBase, ds)

\* The other documents of the set: a valid one, and one with errors.
DocLibrary ==
  [name |-> "u", line |-> 1, named |-> TRUE, headerFailed |-> FALSE,
   columns |-> << [name |-> "id", type |-> "i64", null |-> FALSE, identity |-> FALSE, line |-> 2] >>,
   pks |-> << [name |-> "primary", cols |-> <<"id">>, line |-> 3] >>,
   uniques |-> <<>>, indexes |-> <<>>, fks |-> <<>>, checks |-> {},
   settings |-> <<>>, hasSettings |-> FALSE, phase |-> 0, identity |-> FALSE,
   failed |-> {}, failedPrimary |-> FALSE, failedKey |-> FALSE, failedLines |-> 0]
DocOthers ==
  [lib |-> [valid |-> TRUE, tables |-> <<DocLibrary>>, constraints |-> {"lib_x"}],
   old |-> [valid |-> FALSE, tables |-> <<DocLibrary>>, constraints |-> {"lib_x"}]]

DocMalformed == {"Bad", "none", "use", "table", "diagram", "settings", "primary", "unique", "index", "foreign", "check"}
DocChars == [v8 |-> 8]

-----------------------------------------------------------------------------
(***************************************************************************)
(* The documents that TableSettings is checked with: an audited table and  *)
(* a table with a state machine, which between them use every setting,     *)
(* each with one edit of a column, key, foreign key or setting, or with    *)
(* two.                                                                    *)
(***************************************************************************)
SetC(name, kind, size, null) == [name |-> name, kind |-> kind, size |-> size, null |-> null, identity |-> FALSE, dflt |-> ""]
SetIdentity(name) == [SetC(name, "i64", 0, FALSE) EXCEPT !.identity = TRUE]
SetF(name, cols, to, refs) == [name |-> name, cols |-> cols, table |-> to, refs |-> refs, delete |-> "restrict", update |-> "restrict"]
SetPlain(name, columns, pk) ==
  [name |-> name, columns |-> columns, pks |-> <<pk>>, uniques |-> <<>>, indexes |-> <<>>, checks |-> <<>>, fks |-> <<>>,
   settings |-> <<>>, failed |-> {}, failedKey |-> FALSE, failedPrimary |-> FALSE]
SetBlank == [kind |-> "entity", col |-> "", cols |-> <<>>, stages |-> <<>>, index |-> "", fk |-> "", storage |-> "file", shard |-> "",
          state |-> "", glyph |-> "", form |-> "", to |-> "", requires |-> <<>>, table |-> "", row |-> "", from |-> "", into |-> "", at |-> "",
          count |-> 0, references |-> "", action |-> "", previous |-> "", tables |-> <<>>, lists |-> <<>>]
SetS(kind, col) == [SetBlank EXCEPT !.kind = kind, !.col = col]
SetLine(form, state, to) == [SetS("state_machine", "state") EXCEPT !.form = form, !.state = state, !.to = to]

SetAudited ==
  << [SetPlain("t", << SetIdentity("id"), SetC("rec", "i64", 0, FALSE), SetC("name", "bytes", 0, FALSE), SetC("hash", "varchar", 64, FALSE),
                    SetC("version", "i32", 0, FALSE), SetC("gone", "datetime", 6, TRUE) >>, <<"id">>) EXCEPT
       !.uniques = << <<"hash">> >>,
       !.fks = << SetF("t_rec", <<"rec">>, "r", <<"id">>) >>,
       !.settings = << SetS("entity", ""), SetS("soft_delete", "gone"),
                       [SetS("codec", "name") EXCEPT !.stages = <<"aes">>], SetS("aes_version", "version"),
                       [SetS("blind_index", "name") EXCEPT !.index = "hash"],
                       [SetS("navigation", "") EXCEPT !.fk = "t_rec"],
                       [SetBlank EXCEPT !.kind = "select_explicit", !.cols = <<"name", "hash">>],
                       [SetS("audit", "rec") EXCEPT !.into = "h", !.references = "r", !.action = "action", !.previous = "prev",
                          !.tables = << [table |-> "x", record |-> "rec", name |-> "name"] >>,
                          !.lists = << [kw |-> "exclude", cols |-> <<"name", "hash">>] >>],
                       SetS("immutable", "") >>],
     SetPlain("h", << SetIdentity("hid"), SetC("action", "varchar", 8, FALSE), SetC("prev", "i64", 0, TRUE), SetC("id", "i64", 0, FALSE),
                   SetC("rec", "i64", 0, FALSE), SetC("version", "i32", 0, FALSE), SetC("gone", "datetime", 6, TRUE) >>, <<"hid">>),
     SetPlain("r", << SetIdentity("id") >>, <<"id">>),
     [SetPlain("x", << SetC("rec", "i64", 0, FALSE), SetC("name", "varchar", 63, FALSE) >>, <<"rec", "name">>) EXCEPT
       !.fks = << SetF("x_rec", <<"rec">>, "r", <<"id">>) >>] >>

SetMachine ==
  << [SetPlain("t", << SetC("id", "varchar", 20, FALSE), [SetC("state", "varchar", 9, FALSE) EXCEPT !.dflt = "a"], SetC("why", "text", 0, TRUE), SetC("pos", "i32", 0, FALSE),
                    SetC("day", "date", 0, FALSE) >>, <<"id">>) EXCEPT
       !.settings = << [SetBlank EXCEPT !.kind = "store", !.shard = "day"], SetS("key_prefix", ""), SetS("title", "state"), SetS("markdown", "why"),
                       SetLine("initial", "a", ""), [SetLine("transition", "a", "b") EXCEPT !.requires = <<"why">>],
                       SetLine("terminal", "b", ""), [SetLine("limit", "a", "") EXCEPT !.count = 3],
                       [SetLine("history", "", "") EXCEPT !.table = "h", !.row = "row", !.from = "was", !.into = "is", !.at = "at"],
                       [SetS("checkbox", "state") EXCEPT !.state = "a", !.glyph = "o"], [SetS("checkbox", "state") EXCEPT !.state = "b", !.glyph = "x"] >>],
     [SetPlain("h", << SetIdentity("hid"), SetC("row", "varchar", 20, FALSE), SetC("was", "varchar", 9, FALSE), SetC("is", "varchar", 9, FALSE), SetC("at", "datetime", 6, FALSE),
                    SetC("why", "text", 0, TRUE) >>, <<"hid">>) EXCEPT
       !.fks = << SetF("h_t", <<"row">>, "t", <<"id">>) >>] >>

SetBases == [audited |-> SetAudited, machine |-> SetMachine]
SetAt(b, i) == SetBases[b][i]
SetGrid(es, is, xs) ==
  [n \in 1..(Len(es) * Len(is) * Len(xs)) |->
     [e |-> es[1 + (((n - 1) \div Len(xs)) \div Len(is))], i |-> is[1 + (((n - 1) \div Len(xs)) % Len(is))], x |-> xs[1 + ((n - 1) % Len(xs))]]]
SetPairs(is, js) == [n \in 1..(Len(is) * Len(js)) |-> <<is[1 + ((n - 1) \div Len(js))], js[1 + ((n - 1) % Len(js))]>>]
SetUpTo(n) == [i \in 1..n |-> i]
SetEdits(b) ==
  LET T0 == SetUpTo(Len(SetBases[b]))
      Cs == SelectSeq(SetPairs(T0, SetUpTo(7)), LAMBDA p : p[2] <= Len(SetAt(b, p[1]).columns))
      Ss == SetPairs(<<1>>, SetUpTo(Len(SetAt(b, 1).settings))) IN
  SetGrid(<<"none">>, <<<<1, 1>>>>, <<"">>)
  \o SetGrid(<<"type", "wide", "null", "drop", "fail", "identity">>, Cs, <<"">>)
  \o SetGrid(<<"other">>, Cs, <<"action", "id">>)
  \o SetGrid(<<"extra", "audit", "key", "nofk", "cascade", "failedkey">>, SetPairs(T0, <<0>>), <<"">>)
  \o SetGrid(<<"twice", "omit", "repeated", "zero", "doubled", "nolist", "include">>, Ss, <<"">>)
  \o SetGrid(<<"col", "index", "previous", "into", "references", "state", "to", "row", "from", "at">>, Ss,
          IF b = "audited" THEN <<"id", "rec", "version", "prev", "action", "t", "r">> ELSE <<"a", "b", "c", "why", "state", "t">>)
SetRelevant(b, d) ==
  d.e \in DOMAIN SetBlank => SetAt(b, 1).settings[d.i[2]][d.e] # ""
SetEdited(ts, d) ==
  LET i == d.i[1]
      j == d.i[2]
      t == ts[i] IN
  CASE d.e \in {"type", "wide", "null", "drop", "fail", "other", "identity"} /\ j > Len(t.columns) -> ts
    [] d.e \in {"twice", "omit", "repeated", "zero", "doubled", "nolist", "include"} \cup DOMAIN SetBlank /\ j > Len(t.settings) -> ts
    [] d.e = "type" -> [ts EXCEPT ![i].columns[j].kind = IF @ = "text" THEN "i32" ELSE "text"]
    [] d.e = "wide" -> [ts EXCEPT ![i].columns[j].size = @ + 1]
    [] d.e = "null" -> [ts EXCEPT ![i].columns[j].null = ~@]
    [] d.e = "identity" -> [ts EXCEPT ![i].columns[j].identity = ~@]
    [] d.e = "drop" -> IF j > Len(t.columns) \/ Len(t.columns) = 1 THEN ts ELSE [ts EXCEPT ![i].columns = RemoveAt(@, j)]
    [] d.e = "fail" -> IF j > Len(t.columns) \/ Len(t.columns) = 1 THEN ts ELSE [ts EXCEPT ![i].columns = RemoveAt(@, j), ![i].failed = {t.columns[j].name}]
    [] d.e = "other" -> IF j > Len(t.columns) THEN ts ELSE [ts EXCEPT ![i].columns[j].name = d.x,
                         ![i].pks = IF @ = <<<<t.columns[j].name>>>> THEN <<<<d.x>>>> ELSE @]
    [] d.e = "extra" -> [ts EXCEPT ![i].columns = Append(@, SetC("more", "i32", 0, FALSE))]
    [] d.e = "audit" -> [ts EXCEPT ![i].settings = Append(@, IF i = 1 THEN [SetLine("transition", "a", "c") EXCEPT !.requires = <<"id">>] ELSE SetS("audit", ""))]
    [] d.e = "key" -> [ts EXCEPT ![i].pks = << <<t.columns[Len(t.columns)].name>> >>]
    [] d.e = "nofk" -> [ts EXCEPT ![i].fks = <<>>]
    [] d.e = "cascade" -> IF t.fks = <<>> THEN ts ELSE [ts EXCEPT ![i].fks[1].delete = "cascade"]
    [] d.e = "failedkey" -> [ts EXCEPT ![i].pks = <<>>, ![i].failedKey = TRUE, ![i].failedPrimary = TRUE]
    [] d.e = "twice" -> [ts EXCEPT ![i].settings = Append(@, t.settings[j])]
    [] d.e = "omit" -> IF j > Len(t.settings) THEN ts ELSE [ts EXCEPT ![i].settings = RemoveAt(@, j)]
    [] d.e = "repeated" -> IF t.settings[j].cols = <<>> THEN ts ELSE [ts EXCEPT ![i].settings[j].cols = Append(@, Head(@))]
    [] d.e = "zero" -> [ts EXCEPT ![i].settings[j].count = 0]
    [] d.e = "doubled" -> [ts EXCEPT ![i].settings[j].lists = @ \o @]
    [] d.e = "nolist" -> [ts EXCEPT ![i].settings[j].lists = <<>>]
    [] d.e = "include" -> IF t.settings[j].lists = <<>> THEN ts ELSE [ts EXCEPT ![i].settings[j].lists = << [kw |-> "include", cols |-> <<"id", "version", "gone">>] >>]
    [] d.e = "none" -> ts
    [] OTHER -> IF j > Len(t.settings) THEN ts ELSE [ts EXCEPT ![i].settings[j][d.e] = d.x]
SetFirst == {"drop", "other", "extra", "twice", "identity", "nolist", "include"}
SetSecond == {"none", "other", "identity", "twice", "col", "previous", "state", "null", "wide", "audit"}
SetSensible(b) == SelectSeq(SetEdits(b), LAMBDA d : SetRelevant(b, d))
\* One edit of any kind, or two of these.
SetEditsOf(b, s) ==
  SetPairs(s, <<Head(s)>>)
  \o SetPairs(SelectSeq(s, LAMBDA d : d.e \in SetFirst), SelectSeq(s, LAMBDA d : d.e \in SetSecond))
SetTablesFrom(b) ==
  LET ps == SetEditsOf(b, SetSensible(b)) IN
  [n \in DOMAIN ps |-> SetEdited(SetEdited(SetBases[b], ps[n][1]), ps[n][2])]
\* The documents, built once.
SetTables == SelectSeq(SetTablesFrom("audited") \o SetTablesFrom("machine"), LAMBDA t : TRUE)
SetDocuments == 1..Len(SetTables)
SetTablesOf(x) == SetTables[x]

-----------------------------------------------------------------------------
(***************************************************************************)
(* The check lines that CheckExpression is checked with: every form of a   *)
(* simple predicate with sound and unsound operands, and the and and or of *)
(* some of them in every nesting up to four, with and without parentheses, *)
(* also where these do not match.                                          *)
(***************************************************************************)
ChkColumnNames == {"a", "f", "d", "s", "t", "b", "k"}
ChkColumnType(c) ==
  CASE c = "a" -> [kind |-> "int", p |-> 2, s |-> 0]
    [] c = "f" -> [kind |-> "bool", p |-> 0, s |-> 0]
    [] c = "d" -> [kind |-> "decimal", p |-> 3, s |-> 2]
    [] c = "s" -> [kind |-> "varchar", p |-> 3, s |-> 0]
    [] c = "t" -> [kind |-> "datetime", p |-> 2, s |-> 0]
    [] c = "b" -> [kind |-> "bytes", p |-> 0, s |-> 0]
    [] OTHER -> [kind |-> "int", p |-> 1, s |-> 0]

\* The tokens and the catalog form of an array.
ChkE == INSTANCE CheckExpression WITH
       Texts <- {}, Foreign <- {}, Dialects <- {}, TypeOf <- ChkColumnType, Columns <- ChkColumnNames, Banned <- {},
       pc <- "", text <- <<>>, foreign <- FALSE, canonical <- <<>>, dialect <- "", form <- <<>>
ChkWord(w) == ChkE!Word(w)
ChkOp(o) == ChkE!Op(o)
ChkNum(w, f) == ChkE!Num([neg |-> FALSE, whole |-> w, frac |-> f])
ChkMinus(w, f) == ChkE!Num([neg |-> TRUE, whole |-> w, frac |-> f])
ChkStr(cs) == ChkE!Str(cs)
ChkAt(f) == ChkE!StrTime(f)
ChkParens(x) == ChkE!Parens(x)

ChkCmp(c, o, l) == <<ChkWord(c), ChkOp(o), l>>
ChkNeg(c, o, l) == <<ChkWord(c), ChkOp(o), ChkOp("-"), l>>
ChkInList(c, n, ls) == <<ChkWord(c)>> \o ChkE!Not(n) \o <<ChkWord("in")>> \o ChkParens(ChkE!Commas([i \in DOMAIN ls |-> <<ls[i]>>]))
ChkSimple == {
  ChkCmp("a", "<", ChkNum(<<5>>, <<>>)), ChkCmp("a", "<", ChkNum(<<0, 5>>, <<>>)), ChkNeg("a", "=", ChkNum(<<5>>, <<>>)),
  ChkNeg("a", "=", ChkNum(<<0>>, <<>>)), ChkCmp("a", "=", ChkNum(<<1, 2, 3>>, <<>>)), ChkCmp("a", "=", ChkNum(<<5>>, <<0>>)),
  ChkCmp("a", "=", ChkWord("k")), ChkCmp("a", "=", ChkWord("s")), ChkCmp("a", "=", ChkWord("null")),
  ChkCmp("f", "=", ChkWord("true")), ChkCmp("f", "<", ChkWord("true")), ChkCmp("f", "=", ChkNum(<<1>>, <<>>)), ChkCmp("f", "<>", ChkWord("false")),
  ChkCmp("d", ">=", ChkNum(<<7>>, <<5>>)), ChkCmp("d", ">=", ChkNum(<<0>>, <<0, 5>>)), ChkNeg("d", ">=", ChkNum(<<0>>, <<5>>)),
  ChkCmp("d", "=", ChkNum(<<0>>, <<>>)), ChkCmp("d", "=", ChkNum(<<1, 2>>, <<>>)), ChkCmp("d", "=", ChkNum(<<1>>, <<1, 2, 3>>)),
  ChkCmp("s", "=", ChkStr(<<"x", "\\">>)), ChkCmp("s", "<>", ChkStr(<<"'">>)), ChkCmp("s", "=", ChkStr(<<"\\", "\\", "'">>)),
  ChkCmp("s", "=", ChkStr(<<"x", "x", "x", "x">>)), ChkCmp("b", "=", ChkStr(<<"x">>)), ChkCmp("z", "=", ChkStr(<<"x">>)),
  ChkCmp("t", ">", ChkAt(<<>>)), ChkCmp("t", ">", ChkAt(<<5, 0>>)), ChkCmp("t", ">", ChkAt(<<5, 0, 0>>)), ChkCmp("t", "=", ChkStr(<<"x">>)),
  <<ChkNum(<<5>>, <<>>), ChkOp("<"), ChkWord("a")>>, <<ChkWord("true"), ChkOp("="), ChkWord("f")>>, <<ChkNum(<<5>>, <<>>), ChkOp("<"), ChkNum(<<6>>, <<>>)>>,
  <<ChkWord("a"), ChkWord("is"), ChkWord("null")>>, <<ChkWord("s"), ChkWord("is"), ChkWord("not"), ChkWord("null")>>,
  <<ChkWord("a"), ChkWord("is"), ChkWord("not"), ChkWord("in")>>,
  ChkInList("a", FALSE, <<ChkNum(<<1>>, <<>>), ChkNum(<<0, 2>>, <<>>)>>), ChkInList("a", TRUE, <<ChkNum(<<1>>, <<>>)>>),
  ChkInList("a", FALSE, <<ChkMinus(<<1>>, <<>>), ChkMinus(<<2>>, <<>>)>>), ChkInList("a", FALSE, <<ChkStr(<<"x">>)>>),
  ChkInList("s", TRUE, <<ChkStr(<<"x">>), ChkStr(<<"\\">>)>>), ChkInList("s", FALSE, <<ChkStr(<<"'">>)>>),
  ChkInList("d", FALSE, <<ChkNum(<<1>>, <<>>), ChkMinus(<<2>>, <<5>>)>>), ChkInList("f", FALSE, <<ChkWord("true"), ChkWord("false")>>),
  ChkInList("t", FALSE, <<ChkAt(<<>>), ChkAt(<<1>>)>>),
  <<ChkWord("a")>>, <<ChkWord("a"), ChkWord("between"), ChkNum(<<1>>, <<>>)>>, <<ChkWord("a"), ChkOp("+"), ChkNum(<<1>>, <<>>), ChkOp("="), ChkWord("a")>>,
  <<ChkWord("f")>> \o ChkParens(<<ChkWord("a")>>) \o <<ChkOp("="), ChkWord("a")>>, <<>> }

ChkAnd == <<ChkWord("and")>>
ChkOr == <<ChkWord("or")>>
ChkLess == ChkCmp("a", "<", ChkNum(<<5>>, <<>>))
ChkBase == {ChkLess, ChkCmp("f", "=", ChkWord("true")), ChkInList("s", TRUE, <<ChkStr(<<"x">>), ChkStr(<<"\\">>)>>)}
ChkEnclosed(A) == {ChkParens(x) : x \in A}
ChkJoined(A, B) == {x \o o \o y : x \in A, o \in {ChkAnd, ChkOr}, y \in B}
ChkTwo == ChkJoined(ChkBase \cup ChkEnclosed(ChkBase), ChkBase)
ChkThree == ChkJoined(ChkTwo \cup ChkEnclosed(ChkTwo), ChkBase) \cup ChkJoined(ChkBase, ChkTwo \cup ChkEnclosed(ChkTwo))
ChkFour == ChkJoined(ChkEnclosed(ChkJoined(ChkBase, ChkBase)), ChkJoined(ChkBase, ChkBase)) \cup ChkJoined(ChkJoined(ChkBase, ChkBase), ChkEnclosed(ChkJoined(ChkBase, ChkBase)))
ChkPieces == <<ChkLess, ChkAnd, ChkOr, <<ChkE!Punct("(")>>, <<ChkE!Punct(")")>>, <<ChkWord("a"), ChkWord("is"), ChkWord("null")>>, <<ChkWord("a")>> >>
ChkLoose == UNION {{FlattenSeq([i \in 1..kd |-> ChkPieces[q[i]]]) : q \in [1..kd -> 1..7]} : kd \in 1..4}
ChkLines == ChkSimple \cup ChkBase \cup ChkEnclosed(ChkBase) \cup ChkTwo \cup ChkEnclosed(ChkTwo) \cup ChkThree \cup ChkFour \cup ChkLoose \cup ChkJoined(ChkSimple, ChkBase)

\* Constraints of another tool: a column compared with any or all of an array.
ChkConstraints ==
  {<<ChkWord("check")>> \o ChkParens(ChkParens(<<ChkWord("a"), ChkOp(o), ChkWord(q)>>
      \o ChkE!PgArray(ChkColumnType("a"), <<ChkNum(<<1>>, <<>>), ChkNum(<<2>>, <<>>)>>))) : o \in {"=", "<>", "<"}, q \in {"any", "all"}}

-----------------------------------------------------------------------------
(***************************************************************************)
(* The columns that ColumnForms is checked with: the columns of every type *)
(* with every default that the parser accepts, and the catalog rows that a *)
(* database made by hand can hold.                                         *)
(***************************************************************************)
ClmNoRows(d) == {}
ClmF == INSTANCE ColumnForms WITH
       Dialects <- {}, Declared <- {}, ByHand <- ClmNoRows, pc <- "", dialect <- "", column <- <<>>, row <- <<>>, result <- <<>>

ClmTypes ==
  {ClmF!Type(kd, 0, 0) : kd \in ClmF!Plain}
  \cup {ClmF!Type("decimal", 3, 1), ClmF!Type("decimal", 2, 0), ClmF!Type("varchar", 2, 0)}
  \cup {ClmF!Type(kd, p, 0) : kd \in ClmF!Temporal, p \in {0, 2, 6}}
ClmLiterals ==
  {ClmF!NoLit, ClmF!Now(0), ClmF!Word(0), ClmF!Word(1), ClmF!Str("uuid", 0, 0), ClmF!Str("UUID", 0, 0), ClmF!Str("date", 1, 0)}
  \cup {ClmF!Num(v, f) : v \in {0, 1, 5, 10, -5, -70, 40000}, f \in 0..2}
  \cup {ClmF!Str("plain", v, 0) : v \in {0, 2, 3}}
  \cup {ClmF!Str(s, v, f) : s \in ClmF!Temporal, v \in {0, 10, 15}, f \in 0..2}
ClmLines == [type : ClmTypes, nullable : BOOLEAN, identity : BOOLEAN, dflt : ClmLiterals]
ClmDeclared == {ClmF!LineColumn(c) : c \in {x \in ClmLines : ClmF!LineAccepted(x)}}

ClmNatives(d) ==
  {ClmF!typeText(d, t) : t \in ClmTypes} \cup
  CASE d = "mysql" ->
         {ClmF!Native("int", <<11>>, ""), ClmF!Native("decimal unsigned", <<3, 1>>, ""), ClmF!Native("varchar", <<2>>, "utf8mb4_general_ci"),
          ClmF!Native("longtext", <<>>, "latin1"), ClmF!Native("char(36)", <<>>, ClmF!Text4), ClmF!Native("float", <<>>, ""),
          ClmF!Native("decimal", <<20, 1>>, "")}
    [] d = "postgres" ->
         {ClmF!Native("numeric", <<>>, ""), ClmF!Native("numeric", <<2, 3>>, ""), ClmF!Native("character varying", <<2>>, ""),
          ClmF!Native("text", <<>>, ""), ClmF!Native("time", <<>>, ""), ClmF!Native("timestamp", <<>>, ""), ClmF!Native("real", <<>>, "")}
    [] d = "sqlite" ->
         {ClmF!Native("INTEGER", <<>>, ""), ClmF!Native("varchar", <<>>, ""), ClmF!Native("DECIMALINT", <<3>>, ""), ClmF!Native("NUMERIC", <<>>, "")}
ClmCatalogLiterals(d) ==
  {[l EXCEPT !.k = kd] : l \in {x \in ClmLiterals : x.k \in {"num", "str"}},
                        kd \in CASE d = "mysql" -> {"value"} [] d = "postgres" -> {"cast"} [] d = "sqlite" -> {"num", "str"}}
  \cup {ClmF!NoLit, ClmF!Lit("expr", "", 0, 0)}
  \cup {ClmF!Now(p) : p \in IF d = "postgres" THEN {0} ELSE {0, 2, 3}}
  \cup (IF d = "postgres" THEN {ClmF!Word(0), ClmF!Word(1), ClmF!Num(5, 0), ClmF!Num(15, 1)} ELSE {})
ClmChecks(d) == {ClmF!NoCheck, ClmF!Check("other", 0)} \cup {ClmF!typeCheck(d, t) : t \in ClmTypes}
ClmIntegerNames == {"smallint", "int", "integer", "INTEGER", "bigint"}
ClmNumericNames == ClmIntegerNames \cup
  {"tinyint(1)", "decimal", "decimal unsigned", "double", "float", "numeric", "real", "double precision"}

\* Rows a database can hold: an identity is an integer key without a default, and
\* a server that types its defaults holds a numeric one on a numeric column only.
ClmPossible(d, r) ==
  /\ r.auto = "identity" => r.type.name \in ClmIntegerNames /\ r.dflt = ClmF!NoLit
  /\ d = "sqlite" /\ r.auto = "identity" => r.type.name = "INTEGER"
  /\ r.dflt.k \in {"value", "cast"} => (r.type.name \in ClmNumericNames <=> r.dflt.s = "")
  /\ d = "postgres" /\ r.dflt.k = "cast" /\ r.dflt.s \in ClmF!Temporal =>
       ClmF!Stripped(r.dflt) = r.dflt /\ r.type.name = (IF r.dflt.s = "time" THEN "time" ELSE "timestamp")
  /\ d = "mysql" /\ r.type.name \in ClmF!Temporal /\ r.dflt.k = "value" => r.dflt.s = r.type.name /\ r.dflt.f = r.type.args[1]
  /\ (r.dflt.k = "num" => r.dflt.s = "") /\ (r.dflt.k = "str" => r.dflt.s # "")
  /\ d = "postgres" /\ r.dflt.k = "word" => r.type.name = "boolean"
  /\ d = "postgres" /\ r.dflt.k = "num" => r.type.name \in ClmNumericNames
ClmByHand(d) ==
  {ClmF!Shown(d, r) : r \in {x \in {ClmF!Row(t, FALSE, a, l, kd) : t \in ClmNatives(d), a \in {"no", "identity", "other"},
                                                           l \in ClmCatalogLiterals(d), kd \in ClmChecks(d)} : ClmPossible(d, x)}}

-----------------------------------------------------------------------------
(***************************************************************************)
(* The databases that Introspection is checked with: a table "a" and a     *)
(* table "b" that refers to it, with a history table "h", each object in   *)
(* the forms that the readers of the three databases tell apart.           *)
(***************************************************************************)
DbsNoDatabases(d) == {}
DbsI == INSTANCE Introspection WITH
       Dialects <- {}, Databases <- DbsNoDatabases, AuditColumn <- "", MaxPasses <- 0,
       pc <- "", dialect <- "", db <- {}, doc <- {}, reported <- {}, again <- {}, passes <- 0

DbsNoRef == [table |-> "", cols |-> <<>>]
DbsObject(kind, t, n, cols, ref, form) == [kind |-> kind, table |-> t, name |-> n, cols |-> cols, ref |-> ref, form |-> form]
DbsTable(t, form) == DbsObject("table", t, t, <<>>, DbsNoRef, form)
DbsColumn(t, n, form) == DbsObject("column", t, n, <<>>, DbsNoRef, form)
DbsPrimary(t, cols, form) == DbsObject("primary", t, "PRIMARY", cols, DbsNoRef, form)
DbsTrigger(t, n, cols, into, form, fn) == DbsObject("trigger", t, n, cols, [table |-> into, cols |-> fn], form)
DbsKPlain == DbsObject("check", "a", "k", <<"x">>, DbsNoRef, "plain")
DbsUPlain == DbsObject("unique", "a", "u", <<"x">>, DbsNoRef, "plain")

\* Table "a": the columns id and x, a primary key, a unique key u, a check k and
\* the CHECK that the renderer writes for x, which only some types need.
DbsAs(d) ==
  {{DbsTable("a", tf), DbsColumn("a", "id", "plain"), DbsColumn("a", "x", xf), DbsObject("unique", "a", "u", <<"x">>, DbsNoRef, uf),
    DbsObject("check", "a", "k", <<"x">>, DbsNoRef, kf)} \cup pk \cup ck :
     tf \in {"plain", "refused"} \cup (IF d = "sqlite" THEN {"unreadable"} ELSE {"partition"}),
     xf \in {"plain", "refused", "checked", "default", "bad"}, uf \in {"plain", "bad"}, kf \in {"plain", "bad"},
     pk \in {{}, {DbsPrimary("a", <<"id">>, "plain")}, {DbsPrimary("a", <<"x">>, "plain")}}
            \cup (IF d = "sqlite" THEN {} ELSE {{DbsPrimary("a", <<"id">>, "bad")}}),
     ck \in {{}} \cup {{DbsObject("check", "a", "a$x", <<"x">>, DbsNoRef, f)} : f \in {"renderer", "bad"}}}
DbsSound(s) ==
  \A kd \in DbsI!Of(s, "check") : kd.form = "renderer" =>
    \E c \in DbsI!Of(s, "column") : c.table = kd.table /\ <<c.name>> = kd.cols /\ c.form \in {"checked", "default", "bad"}

DbsImmutable(f, fn) == {DbsTrigger("b", e, <<>>, "", f, fn) : e \in DbsI!ImmutableEvents}
DbsAudit(cols, fn) == {DbsTrigger("b", e, IF e = "audit_delete" THEN <<>> ELSE cols, "h", "plain", fn) : e \in DbsI!AuditEvents}
DbsFunction(d) == IF d = "postgres" THEN <<"f">> ELSE <<>>
DbsTriggers(fn) ==
  {{}, DbsImmutable("plain", fn), DbsImmutable("bad", fn), {g \in DbsImmutable("plain", fn) : g.name = "immutable_delete"},
   DbsAudit(<<"id", "x">>, fn), DbsAudit(<<"x">>, fn), DbsAudit(<<"id", "x">>, fn) \cup DbsImmutable("plain", fn),
   DbsImmutable("plain", fn) \cup {DbsTrigger("b", "own", <<>>, "", "bad", fn)},
   {g \in DbsAudit(<<"id", "x">>, fn) : g.name # "audit_delete"}}
DbsFk(n, cols, refs, form) == DbsObject("foreign_key", "b", n, cols, [table |-> "a", cols |-> refs], form)
DbsForeignKeys(d) ==
  {{}, {DbsFk("f", <<"x", "id">>, <<"x", "id">>, "bad"), DbsFk("g", <<"x">>, <<"x">>, "plain")}}
  \cup {{DbsFk("f", <<"x">>, refs, form)} :
          refs \in {<<"id">>, <<"x">>}, form \in {"plain", "bad"} \cup (IF d = "sqlite" THEN {} ELSE {"outside"})}

\* Table "b": the columns id and x, a primary key, an index and a foreign key.
DbsBs(d) ==
  {{DbsTable("b", tf), DbsColumn("b", "id", idf), DbsColumn("b", "x", "plain"), DbsPrimary("b", <<"x">>, "plain"),
    DbsObject("index", "b", "i", <<"id">>, DbsNoRef, "plain")} \cup fk \cup tr :
     tf \in {"plain", "view"}, idf \in {"plain", "bad"}, fk \in DbsForeignKeys(d), tr \in DbsTriggers(DbsFunction(d))}
DbsRest(d) ==
  {{DbsTable("h", f), DbsColumn("h", "id", "plain"), DbsPrimary("h", <<"id">>, "plain")}
     \cup {DbsObject("routine", "", r, <<>>, DbsNoRef, "bad") : r \in IF d = "sqlite" THEN {} ELSE {"f", "r"}} : f \in {"plain", "view"}}

\* Every "a" with the simple "b"s, where one of the table, its unique key and its
\* check is unsupported at most, and some "a"s with every "b".
DbsSimpleBs(d) ==
  {b \in DbsBs(d) : /\ Cardinality(DbsI!Of(b, "foreign_key")) = 1 /\ {DbsTable("b", "plain"), DbsColumn("b", "id", "plain")} \subseteq b
                 /\ DbsI!Of(b, "trigger") \in {{}, DbsAudit(<<"x">>, DbsFunction(d))}}
DbsDatabases(d) ==
  {a \cup b \cup r : a \in {x \in DbsAs(d) : DbsSound(x) /\ Cardinality({DbsTable("a", "plain"), DbsKPlain, DbsUPlain} \ x) <= 1}, b \in DbsSimpleBs(d),
                     r \in {x \in DbsRest(d) : DbsTable("h", "plain") \in x}}
  \cup {a \cup br : a \in {x \in DbsAs(d) : /\ DbsSound(x) /\ {DbsKPlain, DbsUPlain, DbsTable("a", "plain")} \subseteq x
                                        /\ \E c \in DbsI!Of(x, "column") : c.form \in {"checked", "refused"}},
                   br \in {x \in {b \cup r : b \in DbsBs(d), r \in DbsRest(d)} :
                             Cardinality({DbsTable("b", "plain"), DbsColumn("b", "id", "plain"), DbsTable("h", "plain")} \ x) <= 1}}

-----------------------------------------------------------------------------
(* The instances.                                                          *)


D == INSTANCE DocumentParser WITH
       text <- v1, n <- v2, p <- v3, pc <- v4,
       Texts <- DocTexts, LinesOf <- DocLines, Documents <- DocOthers, Malformed <- DocMalformed, Chars <- DocChars
S == INSTANCE TableSettings WITH
       text <- v1, k <- v2, diags <- v3, pc <- v4, Texts <- SetDocuments, TablesOf <- SetTablesOf
E == INSTANCE CheckExpression WITH
       pc <- v1, text <- v2, foreign <- v3, canonical <- v4, dialect <- v5, form <- v6,
       Texts <- ChkLines, Foreign <- ChkConstraints, TypeOf <- ChkColumnType, Columns <- ChkColumnNames, Banned <- {"k2"}
C == INSTANCE ColumnForms WITH
       pc <- v1, dialect <- v2, column <- v3, row <- v4, result <- v5, Declared <- ClmDeclared, ByHand <- ClmByHand
I == INSTANCE Introspection WITH
       pc <- v1, dialect <- v2, db <- v3, doc <- v4, reported <- v5, again <- v6, passes <- v7,
       Databases <- DbsDatabases, AuditColumn <- "x"

-----------------------------------------------------------------------------
(* The run.                                                                *)

NoneAfter4 == v5 = Unused /\ v6 = Unused /\ v7 = Unused
NoSlots == v1 = Unused /\ v2 = Unused /\ v3 = Unused /\ v4 = Unused /\ NoneAfter4

\* The pragmas matter to the file lock only.
StartPart ==
  /\ FileInit /\ held = Unused /\ setting = Unused /\ server = Unused /\ previous = Unused
  /\ \/ part = "file" /\ NoSlots
     \/ /\ pragma = [c \in Connections |-> InNormal]
        /\ \/ part = "document" /\ D!Init /\ NoneAfter4
           \/ part = "settings" /\ S!Init /\ NoneAfter4
           \/ part = "checks" /\ E!Init /\ v7 = Unused
           \/ part = "columns" /\ C!Init /\ v6 = Unused /\ v7 = Unused
           \/ part = "introspection" /\ I!Init

NextOfPart ==
  \/ part = "file" /\ FileNext /\ UNCHANGED <<serverOnly, part, slots>>
  \/ part = "document" /\ D!Next /\ UNCHANGED <<fileVars, serverOnly, part, after4>>
  \/ part = "settings" /\ S!Next /\ UNCHANGED <<fileVars, serverOnly, part, after4>>
  \/ part = "checks" /\ E!Next /\ UNCHANGED <<fileVars, serverOnly, part, v7>>
  \/ part = "columns" /\ C!Next /\ UNCHANGED <<fileVars, serverOnly, part, after5>>
  \/ part = "introspection" /\ I!Next /\ UNCHANGED <<fileVars, serverOnly, part>>

SpecOfPart == StartPart /\ [][NextOfPart]_all

-----------------------------------------------------------------------------
(* The properties of the other parts, each of the behaviours of its part;  *)
(* those of PlanLock are checked under their own names.                    *)

\* Types of the part that runs (TypeOK of its module).
PartTypeOK ==
  /\ part = "document" => D!TypeOK
  /\ part = "settings" => S!TypeOK
  /\ part = "introspection" => I!TypeOK

\* DocumentParser: a line has at most one syntax diagnostic.
OneSyntaxPerLine == part = "document" => D!OneSyntaxPerLine

\* DocumentParser: what an accepted document refers to is there.
AcceptedIsWhole == part = "document" => D!AcceptedIsWhole

\* DocumentParser: a failed line causes no diagnostics of other lines.
FailedLinesSilent == part = "document" => D!FailedLinesSilent

\* TableSettings: the statements of the triggers of accepted settings are ones
\* that the databases accept.
TriggersRun == part = "settings" => S!TriggersRun

\* TableSettings: the settings in a schema text are the triggers of a database.
SchemaTextMeansTriggers == part = "settings" => S!SchemaTextMeansTriggers

\* TableSettings: an accepted state machine can be followed.
MachineFollowed == part = "settings" => S!MachineFollowed

\* TableSettings: accepted settings have one entry for each path.
PathsUnique == part = "settings" => S!PathsUnique

\* CheckExpression: the canonical text of a check has its meaning.
CanonicalMeans == part = "checks" => E!CanonicalMeans

\* CheckExpression: the canonical text of a check is stable.
CanonicalStable == part = "checks" => E!CanonicalStable

\* CheckExpression: a check is read back from each database as it was written.
ReadBack == part = "checks" => E!ReadBack

\* CheckExpression: a constraint of another tool is read as what it states.
ReadsWhatIsStored == part = "checks" => E!ReadsWhatIsStored

\* ColumnForms: a column is read back from each database as it was declared.
ColumnReadBack == part = "columns" => C!ColumnReadBack

\* ColumnForms: a column that is read stands for the whole catalog row.
ReadColumnIsWhole == part = "columns" => C!ReadColumnIsWhole

\* Introspection: no object is read as another.
NothingMisread == part = "introspection" => I!NothingMisread

\* Introspection: an object is in the document or reported.
NothingLost == part = "introspection" => I!NothingLost

\* Introspection: no object is reported twice.
ReportedOnce == part = "introspection" => I!ReportedOnce

\* Introspection: each pass of document() makes the document smaller.
PassRemoves == [][part = "introspection" => I!PassRemovesStep]_all

\* A document that is accepted is whole and means what its settings say, and one
\* that is refused is refused for the lines that are wrong.
DocumentsSound ==
  /\ PartTypeOK /\ OneSyntaxPerLine /\ AcceptedIsWhole /\ FailedLinesSilent
  /\ TriggersRun /\ SchemaTextMeansTriggers /\ MachineFollowed /\ PathsUnique

\* What was rendered is read back as it was declared, and what was made by hand is
\* read as what it is or reported, once.
ReadsBack ==
  /\ CanonicalMeans /\ CanonicalStable /\ ReadBack /\ ReadsWhatIsStored
  /\ ColumnReadBack /\ ReadColumnIsWhole /\ NothingMisread /\ NothingLost /\ ReportedOnce
=============================================================================
