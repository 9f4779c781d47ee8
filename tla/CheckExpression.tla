-------------------------- MODULE CheckExpression --------------------------
(***************************************************************************)
(* The check predicates of a table: parse.ts reads the text of a check     *)
(* line and keeps its canonical text, check.ts reads that text as a tree,  *)
(* render.ts writes the tree as SQL, the database keeps the constraint in  *)
(* a form of its own, and introspect_check.ts reads that form back as      *)
(* dbspec text.  A text is a sequence of tokens.  A token has a kind, a    *)
(* word, the characters of a string and the digits of a number.            *)
(***************************************************************************)
EXTENDS Integers, Sequences, SequencesExt

CONSTANTS
  Texts,       \* the texts of the check lines
  Foreign,     \* constraints that another tool created, in PostgreSQL's catalog form
  Dialects,
  TypeOf(_),   \* the type of each column: kind, length or precision p, scale s
  Columns,
  Banned       \* the columns of a cascade or set_null foreign key

VARIABLES
  pc,          \* "line", "parsed", "rendered", "stored" or "read"; "rejected" or "reported"
  text,        \* the line, or the foreign constraint
  foreign,     \* the constraint was created by another tool
  canonical,   \* the canonical text that the document keeps
  dialect,
  form         \* the last form: the SQL, the catalog's form, the text read back

vars == <<pc, text, foreign, canonical, dialect, form>>

-----------------------------------------------------------------------------
(* Tokens.                                                                 *)

NoNum == [neg |-> FALSE, whole |-> <<>>, frac |-> <<>>]
Tok(k, t, s, n) == [k |-> k, t |-> t, s |-> s, n |-> n]
Word(t) == Tok("word", t, <<>>, NoNum)
Op(t) == Tok("op", t, <<>>, NoNum)
Punct(t) == Tok("punct", t, <<>>, NoNum)
Ident(t) == Tok("ident", t, <<>>, NoNum)
Num(n) == Tok("number", "", <<>>, n)
Str(s) == Tok("string", "", s, NoNum)
StrNum(n) == Tok("string", "", <<>>, n)          \* the text of a number in quotes
StrTime(frac) == Tok("string", "T", <<>>, [NoNum EXCEPT !.frac = frac])   \* a date-time with its fraction
Malformed == Tok("bad", "", <<>>, NoNum)

TokenAt(ts, i) == IF i \in DOMAIN ts THEN ts[i] ELSE Tok("", "", <<>>, NoNum)
IsWord(ts, i, w) == TokenAt(ts, i).k = "word" /\ TokenAt(ts, i).t = w
IsPunct(ts, i, p) == TokenAt(ts, i).k = "punct" /\ TokenAt(ts, i).t = p
IsOp(ts, i, o) == TokenAt(ts, i).k = "op" /\ TokenAt(ts, i).t = o
Comparisons == {"=", "<>", "<", "<=", ">", ">="}
Orderings == {"<", "<=", ">", ">="}
IsComparison(ts, i) == TokenAt(ts, i).k = "op" /\ TokenAt(ts, i).t \in Comparisons
IsBoolWord(tok) == tok.k = "word" /\ tok.t \in {"true", "false"}
ExpressionWords == {"and", "or", "not", "in", "is", "null", "between"}

Fail == [ok |-> FALSE]
Got(node, i) == [ok |-> TRUE, node |-> node, i |-> i]

\* An operand is a column or a literal token; a predicate is a comparison, a list
\* membership, a null test, or the and or or of two predicates.
Column(c) == [kind |-> "operand", column |-> TRUE, tok |-> Word(c)]
Literal(tok) == [kind |-> "operand", column |-> FALSE, tok |-> tok]
Compare(op, l, r) == [kind |-> "compare", op |-> op, left |-> l, right |-> r]
InList(o, neg, list) == [kind |-> "in", left |-> o, negated |-> neg, list |-> list]
IsNull(o, neg) == [kind |-> "null", left |-> o, negated |-> neg]
Logical(op, l, r) == [kind |-> op, left |-> l, right |-> r]

-----------------------------------------------------------------------------
(* The canonical literal of a column type (defaultOf).                     *)

NoLeadingZeros(ds) ==
  LET nz == {i \in DOMAIN ds : ds[i] # 0} IN
  IF nz = {} THEN <<>> ELSE SubSeq(ds, CHOOSE i \in nz : \A j \in nz : i <= j, Len(ds))
Zeros(k) == [i \in 1..k |-> 0]
Padded(ds, k) == ds \o Zeros(k - Len(ds))
OrZero(ds) == IF ds = <<>> THEN <<0>> ELSE ds
NumOf(neg, whole, frac) ==
  [neg |-> neg /\ NoLeadingZeros(whole \o frac) # <<>>, whole |-> OrZero(NoLeadingZeros(whole)), frac |-> frac]

\* Whether the literal fits the type, and its canonical form.  The range of an
\* integer type is a number of digits, type.p.
Fits(type, tok) ==
  CASE type.kind = "int" -> tok.k = "number" /\ tok.n.frac = <<>> /\ Len(NoLeadingZeros(tok.n.whole)) <= type.p
    [] type.kind = "bool" -> IsBoolWord(tok)
    [] type.kind = "decimal" -> /\ tok.k = "number" /\ Len(tok.n.frac) <= type.s
                                /\ Len(NoLeadingZeros(tok.n.whole)) <= type.p - type.s
    [] type.kind \in {"varchar", "text"} -> /\ tok.k = "string" /\ tok.t = "" /\ tok.n = NoNum
                                            /\ (type.kind = "varchar" => Len(tok.s) <= type.p)
    [] type.kind = "datetime" -> tok.k = "string" /\ tok.t = "T" /\ Len(tok.n.frac) <= type.p
    [] OTHER -> FALSE
\* A faulty defaultOf() that writes one fraction digit too many.
DefaultOfLonger(type, tok) ==
  CASE type.kind = "int" -> Num(NumOf(tok.n.neg, tok.n.whole, <<>>))
    [] type.kind = "decimal" -> Num(NumOf(tok.n.neg, tok.n.whole, Padded(tok.n.frac, type.s + 1)))
    [] OTHER -> tok
DefaultOf(type, tok) ==
  CASE type.kind = "int" -> Num(NumOf(tok.n.neg, tok.n.whole, <<>>))
    [] type.kind = "decimal" -> Num(NumOf(tok.n.neg, tok.n.whole, Padded(tok.n.frac, type.s)))
    [] type.kind = "datetime" -> StrTime(Padded(tok.n.frac, type.p))
    [] OTHER -> tok

\* meetKind(): two columns meet when their kinds of value are equal.
MeetKind(type) ==
  CASE type.kind \in {"varchar", "text"} -> <<"text", 0>>
    [] type.kind = "decimal" -> <<"decimal", type.s>>
    [] type.kind = "datetime" -> <<"datetime", type.p>>
    [] OTHER -> <<type.kind, 0>>

-----------------------------------------------------------------------------
(* Reading a predicate: parse.ts's check() ("line") and check.ts's         *)
(* readCheck() ("canonical"), which trusts its columns and literals.       *)

\* A number with an optional minus, a string, true or false.
ReadLiteral(ts, i) ==
  LET t == TokenAt(ts, i) IN
  CASE IsOp(ts, i, "-") /\ TokenAt(ts, i + 1).k = "number" ->
         Got(Num([TokenAt(ts, i + 1).n EXCEPT !.neg = TRUE]), i + 2)
    [] t.k \in {"string", "number"} \/ IsBoolWord(t) -> Got(t, i + 1)
    [] OTHER -> Fail

\* term(): arithmetic, functions, null and unknown or unfit columns are refused.
Usable(column) == column \in Columns \ Banned /\ TypeOf(column).kind # "bytes"
OperandOf(mode, ts, i, t, lit) ==
  CASE lit.ok -> Got(Literal(lit.node), lit.i)
    [] t.k = "word" /\ t.t \notin ExpressionWords /\ ~IsPunct(ts, i + 1, "(") /\ (mode = "canonical" \/ Usable(t.t)) ->
         Got(Column(t.t), i + 1)
    [] OTHER -> Fail
ReadOperand(mode, ts, i) == OperandOf(mode, ts, i, TokenAt(ts, i), ReadLiteral(ts, i))

IsBool(o) == IF o.column THEN TypeOf(o.tok.t).kind = "bool" ELSE IsBoolWord(o.tok)
Fitted(column, value) == Literal(DefaultOf(TypeOf(column.tok.t), value.tok))
FitsColumn(column, value) == Fits(TypeOf(column.tok.t), value.tok)

\* compare(): the operands meet, and a literal takes the form of its column.
CompareLine(op, l, r) ==
  LET fits == CASE l.column /\ r.column -> MeetKind(TypeOf(l.tok.t)) = MeetKind(TypeOf(r.tok.t))
                [] l.column /\ ~r.column -> FitsColumn(l, r)
                [] ~l.column /\ r.column -> FitsColumn(r, l)
                [] OTHER -> FALSE IN
  IF (op \in Orderings /\ (IsBool(l) \/ IsBool(r))) \/ ~fits THEN Fail
  ELSE Got(Compare(op, IF l.column THEN l ELSE Fitted(r, l), IF r.column THEN r ELSE Fitted(l, r)), 0)

\* The literals of an in list, up to the closing parenthesis.
RECURSIVE ReadList(_, _)
Prepended(item, rest) == IF rest.ok THEN Got(<<item>> \o rest.node, rest.i) ELSE Fail
ListFrom(ts, lit) ==
  CASE ~lit.ok -> Fail
    [] lit.ok /\ IsPunct(ts, lit.i, ")") -> Got(<<lit.node>>, lit.i + 1)
    [] lit.ok /\ IsPunct(ts, lit.i, ",") -> Prepended(lit.node, ReadList(ts, lit.i + 1))
    [] OTHER -> Fail
ReadList(ts, i) == ListFrom(ts, ReadLiteral(ts, i))

\* One comparison, in or is predicate.
At(read, i) == IF read.ok THEN Got(read.node, i) ELSE Fail
CompareWith(mode, op, left, right) ==
  CASE ~right.ok -> Fail
    [] mode = "canonical" -> Got(Compare(op, left.node, right.node), right.i)
    [] OTHER -> At(CompareLine(op, left.node, right.node), right.i)
ReadCompare(mode, ts, left) == CompareWith(mode, TokenAt(ts, left.i).t, left, ReadOperand(mode, ts, left.i + 1))
InWith(mode, column, list, negated) ==
  CASE ~list.ok \/ (mode = "line" /\ ~column.column) -> Fail
    [] mode = "canonical" -> Got(InList(column, negated, list.node), list.i)
    [] OTHER -> IF \E j \in DOMAIN list.node : ~FitsColumn(column, Literal(list.node[j])) THEN Fail
                ELSE Got(InList(column, negated, [j \in DOMAIN list.node |-> Fitted(column, Literal(list.node[j])).tok]), list.i)
ReadIn(mode, ts, left, i, negated) ==
  InWith(mode, left.node, IF IsPunct(ts, i, "(") THEN ReadList(ts, i + 1) ELSE Fail, negated)
ReadNull(mode, ts, left, i, negated) ==
  IF (mode = "line" /\ ~left.node.column) \/ ~IsWord(ts, i, "null") THEN Fail
  ELSE Got(IsNull(left.node, negated), i + 1)
LeafFrom(mode, ts, left) ==
  CASE ~left.ok -> Fail
    [] left.ok /\ IsComparison(ts, left.i) -> ReadCompare(mode, ts, left)
    [] left.ok /\ IsWord(ts, left.i, "not") /\ IsWord(ts, left.i + 1, "in") -> ReadIn(mode, ts, left, left.i + 2, TRUE)
    [] left.ok /\ IsWord(ts, left.i, "in") -> ReadIn(mode, ts, left, left.i + 1, FALSE)
    [] left.ok /\ IsWord(ts, left.i, "is") /\ IsWord(ts, left.i + 1, "not") -> ReadNull(mode, ts, left, left.i + 2, TRUE)
    [] left.ok /\ IsWord(ts, left.i, "is") -> ReadNull(mode, ts, left, left.i + 1, FALSE)
    [] OTHER -> Fail
ReadLeaf(mode, ts, i) == LeafFrom(mode, ts, ReadOperand(mode, ts, i))

\* predicate(), and() and or(): and binds tighter, both join to the left.
RECURSIVE ReadOr(_, _, _), MoreOr(_, _, _), ReadAnd(_, _, _), MoreAnd(_, _, _)
Closed(ts, inner) == IF inner.ok /\ IsPunct(ts, inner.i, ")") THEN Got(inner.node, inner.i + 1) ELSE Fail
Joined(word, left, right) == IF right.ok THEN Got(Logical(word, left.node, right.node), right.i) ELSE Fail
ReadPredicate(mode, ts, i) ==
  IF ~IsPunct(ts, i, "(") THEN ReadLeaf(mode, ts, i)
  ELSE Closed(ts, ReadOr(mode, ts, i + 1))
MoreAnd(mode, ts, left) ==
  IF ~left.ok \/ ~IsWord(ts, left.i, "and") THEN left
  ELSE MoreAnd(mode, ts, Joined("and", left, ReadPredicate(mode, ts, left.i + 1)))
ReadAnd(mode, ts, i) == MoreAnd(mode, ts, ReadPredicate(mode, ts, i))
\* A faulty or() whose right side is a single predicate.
MoreOrFlat(mode, ts, left) ==
  IF ~left.ok \/ (~IsWord(ts, left.i, "or") /\ ~IsWord(ts, left.i, "and")) THEN left
  ELSE MoreOr(mode, ts, Joined(TokenAt(ts, left.i).t, left, ReadPredicate(mode, ts, left.i + 1)))
MoreOr(mode, ts, left) ==
  IF ~left.ok \/ ~IsWord(ts, left.i, "or") THEN left
  ELSE MoreOr(mode, ts, Joined("or", left, ReadAnd(mode, ts, left.i + 1)))
ReadOr(mode, ts, i) == MoreOr(mode, ts, ReadAnd(mode, ts, i))

\* The whole text is one predicate.
Whole(ts, read) == IF read.ok /\ read.i = Len(ts) + 1 THEN read ELSE Fail
ReadWhole(mode, ts) == Whole(ts, ReadOr(mode, ts, 1))
ReadCheck(ts) == ReadWhole("canonical", ts)

-----------------------------------------------------------------------------
(* Writing a predicate: the canonical text ("dbspec") and the SQL of a     *)
(* dialect.                                                                *)

DoubledBackslash(s) == FlattenSeq([i \in DOMAIN s |-> IF s[i] = "\\" THEN <<"\\", "\\">> ELSE <<s[i]>>])
ScaledDecimal(n) ==
  LET ds == NoLeadingZeros(n.whole \o n.frac) IN
  [neg |-> n.neg /\ ds # <<>>, whole |-> OrZero(ds), frac |-> <<>>]

\* literal(): the form of a canonical literal in SQL.
LiteralForm(d, type, tok) ==
  CASE d \in {"mysql", "sqlite"} /\ IsBoolWord(tok) -> Num([NoNum EXCEPT !.whole = IF tok.t = "true" THEN <<1>> ELSE <<0>>])
    [] d = "mysql" /\ tok.k = "string" -> [tok EXCEPT !.s = DoubledBackslash(@)]
    [] d = "sqlite" /\ tok.k = "number" /\ type.kind = "decimal" -> Num(ScaledDecimal(tok.n))
    [] OTHER -> tok
NumText(n) == IF n.neg THEN <<Op("-"), Num([n EXCEPT !.neg = FALSE])>> ELSE <<Num(n)>>
LiteralText(tok) == IF tok.k = "number" THEN NumText(tok.n) ELSE <<tok>>
OperandText(d, type, o) ==
  CASE o.column -> <<IF d = "dbspec" THEN o.tok ELSE Ident(o.tok.t)>>
    [] OTHER -> LiteralText(LiteralForm(d, type, o.tok))
Commas(parts) ==
  FlattenSeq([i \in DOMAIN parts |-> IF i = 1 THEN parts[i] ELSE <<Punct(",")>> \o parts[i]])
OperandType(l, r) == TypeOf(IF l.column THEN l.tok.t ELSE r.tok.t)

Not(negated) == IF negated THEN <<Word("not")>> ELSE <<>>
LeafText(d, p) ==
  LET type == OperandType(p.left, IF p.kind = "compare" THEN p.right ELSE p.left) IN
  CASE p.kind = "compare" -> OperandText(d, type, p.left) \o <<Op(p.op)>> \o OperandText(d, type, p.right)
    [] p.kind = "in" -> OperandText(d, type, p.left) \o Not(p.negated) \o <<Word("in"), Punct("(")>>
                        \o Commas([j \in DOMAIN p.list |-> LiteralText(LiteralForm(d, type, p.list[j]))]) \o <<Punct(")")>>
    [] OTHER -> OperandText(d, type, p.left) \o <<Word("is")>> \o Not(p.negated) \o <<Word("null")>>

\* A faulty writer that writes no parentheses.
RECURSIVE PredicateText(_, _)
PredicateTextBare(d, p) ==
  IF p.kind \notin {"and", "or"} THEN LeafText(d, p)
  ELSE PredicateText(d, p.left) \o <<Word(p.kind)>> \o PredicateText(d, p.right)
\* Only an or inside an and is in parentheses.
PredicateText(d, p) ==
  LET Side(q) == IF p.kind = "and" /\ q.kind = "or" THEN <<Punct("(")>> \o PredicateText(d, q) \o <<Punct(")")>>
                 ELSE PredicateText(d, q) IN
  IF p.kind \notin {"and", "or"} THEN LeafText(d, p)
  ELSE Side(p.left) \o <<Word(p.kind)>> \o Side(p.right)

-----------------------------------------------------------------------------
(* The form in which a database keeps a constraint.  MySQL and PostgreSQL  *)
(* print the parsed expression in parentheses, and a list of one literal   *)
(* as a comparison; SQLite keeps the text.                                 *)

RECURSIVE Unescaped(_)
Unescaped(s) ==
  CASE s = <<>> -> <<>>
    [] s[1] = "\\" /\ Len(s) > 1 -> <<s[2]>> \o Unescaped(SubSeq(s, 3, Len(s)))
    [] OTHER -> <<s[1]>> \o Unescaped(Tail(s))
Escaped(s) == FlattenSeq([i \in DOMAIN s |-> IF s[i] \in {"\\", "'"} THEN <<"\\", s[i]>> ELSE <<s[i]>>])
Parens(ts) == <<Punct("(")>> \o ts \o <<Punct(")")>>

RECURSIVE Collapsed(_)
Collapsed(p) ==
  CASE p.kind \in {"and", "or"} -> Logical(p.kind, Collapsed(p.left), Collapsed(p.right))
    [] p.kind = "in" /\ Len(p.list) = 1 -> Compare(IF p.negated THEN "<>" ELSE "=", p.left, Literal(p.list[1]))
    [] OTHER -> p

MySqlLiteral(tok) ==
  CASE tok.k = "number" /\ tok.n.neg -> <<Op("-")>> \o Parens(<<Num([tok.n EXCEPT !.neg = FALSE])>>)
    [] tok.k = "string" -> <<Word("_utf8mb4"), [tok EXCEPT !.s = Escaped(Escaped(Unescaped(@)))]>>
    [] OTHER -> <<tok>>
MySqlOperand(o) == IF o.column THEN <<Ident(o.tok.t)>> ELSE MySqlLiteral(o.tok)

CastName(type) ==
  CASE type.kind = "int" -> <<Word("integer")>>
    [] type.kind = "decimal" -> <<Word("numeric")>>
    [] type.kind = "datetime" -> <<Word("timestamp"), Word("without"), Word("time"), Word("zone")>>
    [] OTHER -> <<Word("text")>>
Cast(ts, name) == ts \o <<Op("::")>> \o name
WithoutTrailingZeros(ds) == Reverse(NoLeadingZeros(Reverse(ds)))
PgLiteral(type, tok, name) ==
  CASE tok.k = "number" /\ tok.n.neg -> Cast(<<StrNum(tok.n)>>, name)
    [] tok.k = "string" /\ tok.t = "T" -> Cast(<<StrTime(WithoutTrailingZeros(tok.n.frac))>>, name)
    [] tok.k = "string" /\ tok.t # "T" -> Cast(<<tok>>, name)
    [] OTHER -> <<tok>>
PgOperand(type, o) ==
  CASE o.column /\ TypeOf(o.tok.t).kind = "varchar" -> Cast(Parens(<<Word(o.tok.t)>>), <<Word("text")>>)
    [] o.column /\ TypeOf(o.tok.t).kind # "varchar" -> <<Word(o.tok.t)>>
    [] OTHER -> PgLiteral(type, o.tok, CastName(type))
PgArray(type, list) ==
  LET name == IF type.kind = "varchar" THEN <<Word("character"), Word("varying")>> ELSE CastName(type)
      array == <<Word("array"), Punct("[")>> \o Commas([j \in DOMAIN list |-> PgLiteral(type, list[j], name)]) \o <<Punct("]")>> IN
  IF type.kind = "varchar" THEN Parens(Cast(Parens(array), <<Word("text"), Punct("["), Punct("]")>>)) ELSE Parens(array)

RECURSIVE Printed(_, _)
Printed(d, p) ==
  LET type == OperandType(p.left, IF p.kind = "compare" THEN p.right ELSE p.left)
      Opd(o) == IF d = "mysql" THEN MySqlOperand(o) ELSE PgOperand(type, o) IN
  CASE p.kind \in {"and", "or"} -> Parens(Printed(d, p.left) \o <<Word(p.kind)>> \o Printed(d, p.right))
    [] p.kind = "compare" -> Parens(Opd(p.left) \o <<Op(p.op)>> \o Opd(p.right))
    [] p.kind = "null" -> Parens(Opd(p.left) \o <<Word("is")>> \o Not(p.negated) \o <<Word("null")>>)
    [] p.kind = "in" /\ d = "mysql" ->
         Parens(Opd(p.left) \o Not(p.negated) \o <<Word("in")>> \o Parens(Commas([j \in DOMAIN p.list |-> MySqlLiteral(p.list[j])])))
    [] OTHER -> Parens(Opd(p.left) \o (IF p.negated THEN <<Op("<>"), Word("all")>> ELSE <<Op("="), Word("any")>>) \o PgArray(type, p.list))

\* What the catalog shows of a constraint created with the SQL text.
Unquoted(sql) == [i \in DOMAIN sql |-> IF sql[i].k = "ident" THEN Word(sql[i].t) ELSE sql[i]]
InCatalog(d, printed) == IF d = "mysql" THEN printed ELSE <<Word("check")>> \o Parens(printed)
Stored(d, sql) ==
  IF d = "sqlite" THEN sql ELSE InCatalog(d, Printed(d, Collapsed(ReadCheck(Unquoted(sql)).node)))

-----------------------------------------------------------------------------
(* Reading the catalog's form (decodeCheck).                               *)

\* checkTokens(): MySQL's strings lose both escapes, its introducers are dropped.
CheckTokens(d, ts) ==
  IF d # "mysql" THEN ts
  ELSE LET kept == SelectSeq(ts, LAMBDA t : t # Word("_utf8mb4")) IN
       [i \in DOMAIN kept |-> [kept[i] EXCEPT !.s = Unescaped(Unescaped(@))]]

\* operand(): -n and -(n) are negative numbers; a word is a column.
DecodeOperand(ts, i) ==
  LET t == TokenAt(ts, i)
      Negative(j) == Literal(Num([TokenAt(ts, j).n EXCEPT !.neg = TRUE])) IN
  CASE t.k \in {"number", "string"} \/ IsBoolWord(t) -> Got(Literal(t), i + 1)
    [] t.k = "ident" \/ (t.k = "word" /\ ~IsBoolWord(t)) -> Got(Column(t.t), i + 1)
    [] IsOp(ts, i, "-") /\ TokenAt(ts, i + 1).k = "number" -> Got(Negative(i + 1), i + 2)
    [] IsOp(ts, i, "-") /\ IsPunct(ts, i + 1, "(") /\ TokenAt(ts, i + 2).k = "number" /\ IsPunct(ts, i + 3, ")") ->
         Got(Negative(i + 2), i + 4)
    [] OTHER -> Fail

\* castType(): the words of the type and its brackets; the token after them.
RECURSIVE CastEnd(_, _)
CastEnd(ts, i) ==
  CASE TokenAt(ts, i).k = "word" /\ TokenAt(ts, i).t \notin {"and", "or", "is", "not", "in"} -> CastEnd(ts, i + 1)
    [] IsPunct(ts, i, "[") /\ IsPunct(ts, i + 1, "]") -> CastEnd(ts, i + 2)
    [] OTHER -> i
NumericCasts == {<<Word("integer")>>, <<Word("numeric")>>}
CastOf(node, name) ==
  IF ~node.column /\ node.tok.k = "string" /\ name \in NumericCasts THEN Literal(Num(node.tok.n)) ELSE node
RECURSIVE Casts(_, _)
Casts(ts, term) ==
  IF ~term.ok \/ ~IsOp(ts, term.i, "::") THEN term
  ELSE LET end == CastEnd(ts, term.i + 1)
           name == SelectSeq(SubSeq(ts, term.i + 1, end - 1), LAMBDA t : t.k = "word") IN
       IF term.node.kind # "operand" THEN Fail ELSE Casts(ts, Got(CastOf(term.node, name), end))

RECURSIVE DecodeOr(_, _), DecodeAnd(_, _), DecodeMore(_, _, _), DecodeItems(_, _, _)
\* term(): an expression in parentheses or an operand, and the casts after it.
DecodeTerm(ts, i) == Casts(ts, IF IsPunct(ts, i, "(") THEN Closed(ts, DecodeOr(ts, i + 1)) ELSE DecodeOperand(ts, i))
\* The literals up to the closing token.
ItemsFrom(ts, item, close) ==
  CASE ~item.ok -> Fail
    [] item.ok /\ (item.node.kind # "operand" \/ item.node.column) -> Fail
    [] item.ok /\ IsPunct(ts, item.i, close) -> Got(<<item.node.tok>>, item.i + 1)
    [] item.ok /\ IsPunct(ts, item.i, ",") -> Prepended(item.node.tok, DecodeItems(ts, item.i + 1, close))
    [] OTHER -> Fail
DecodeItems(ts, i, close) == ItemsFrom(ts, DecodeTerm(ts, i), close)
DecodeList(ts, i) == IF IsPunct(ts, i, "(") THEN DecodeItems(ts, i + 1, ")") ELSE Fail
\* array(): (ARRAY[...]) or ((ARRAY[...])::type[]).
ArrayItems(ts, i, w) ==
  IF IsPunct(ts, i, "(") /\ IsWord(ts, w + 1, "array") /\ IsPunct(ts, w + 2, "[") THEN DecodeItems(ts, w + 3, "]") ELSE Fail
ArrayEnd(ts, enclosed, i) == IF enclosed /\ IsOp(ts, i + 1, "::") THEN CastEnd(ts, i + 2) ELSE IF enclosed THEN i + 1 ELSE i
ArrayFrom(ts, enclosed, items) ==
  IF items.ok /\ (enclosed => IsPunct(ts, items.i, ")")) THEN Closed(ts, Got(items.node, ArrayEnd(ts, enclosed, items.i))) ELSE Fail
DecodeArray(ts, i) ==
  LET enclosed == IsPunct(ts, i + 1, "(") IN
  ArrayFrom(ts, enclosed, ArrayItems(ts, i, IF enclosed THEN i + 1 ELSE i))

\* A faulty comparison() that reads every quantified comparison as a list.
Quantified(left, op, array) == IF array.ok THEN Got(InList(left.node, op = "<>", array.node), array.i) ELSE Fail
Plain(left, op, right) ==
  IF right.ok THEN IF right.node.kind = "operand" THEN Got(Compare(op, left.node, right.node), right.i) ELSE Fail ELSE Fail
DecodeCompareAny(ts, left) ==
  LET op == TokenAt(ts, left.i).t IN
  IF IsWord(ts, left.i + 1, "any") \/ IsWord(ts, left.i + 1, "all") THEN Quantified(left, op, DecodeArray(ts, left.i + 2))
  ELSE Plain(left, op, DecodeTerm(ts, left.i + 1))
\* A comparison, or a list that PostgreSQL keeps as a quantified array.
DecodeCompare(ts, left) ==
  LET op == TokenAt(ts, left.i).t IN
  IF IsWord(ts, left.i + 1, "any") \/ IsWord(ts, left.i + 1, "all")
  THEN IF op \in {"=", "<>"} THEN Quantified(left, op, DecodeArray(ts, left.i + 2)) ELSE Fail
  ELSE Plain(left, op, DecodeTerm(ts, left.i + 1))
\* predicate(): an operand and what follows it; an operand alone is returned as it is.
DecodedIn(left, list, negated) == IF list.ok THEN Got(InList(left.node, negated, list.node), list.i) ELSE Fail
DecodedNull(ts, left, j, negated) == IF IsWord(ts, j, "null") THEN Got(IsNull(left.node, negated), j + 1) ELSE Fail
PredicateFrom(ts, left) ==
  IF ~left.ok THEN Fail
  ELSE CASE left.node.kind # "operand" -> left
         [] left.node.kind = "operand" /\ IsComparison(ts, left.i) -> DecodeCompare(ts, left)
         [] left.node.kind = "operand" /\ IsWord(ts, left.i, "is") ->
              IF IsWord(ts, left.i + 1, "not") THEN DecodedNull(ts, left, left.i + 2, TRUE) ELSE DecodedNull(ts, left, left.i + 1, FALSE)
         [] left.node.kind = "operand" /\ IsWord(ts, left.i, "not") ->
              IF IsWord(ts, left.i + 1, "in") THEN DecodedIn(left, DecodeList(ts, left.i + 2), TRUE) ELSE Fail
         [] left.node.kind = "operand" /\ IsWord(ts, left.i, "in") -> DecodedIn(left, DecodeList(ts, left.i + 1), FALSE)
         [] OTHER -> left
DecodePredicate(ts, i) == PredicateFrom(ts, DecodeTerm(ts, i))
\* expression() and and().
DecodeMore(ts, left, word) ==
  IF ~left.ok \/ ~IsWord(ts, left.i, word) THEN left
  ELSE DecodeMore(ts, Joined(word, left, IF word = "or" THEN DecodeAnd(ts, left.i + 1) ELSE DecodePredicate(ts, left.i + 1)), word)
DecodeAnd(ts, i) == DecodeMore(ts, DecodePredicate(ts, i), "and")
DecodeOr(ts, i) == DecodeMore(ts, DecodeAnd(ts, i), "or")

\* unscaledDecimal(): a text that is not an integer becomes no number.
UnscaledDecimal(n, scale) ==
  LET ds == IF Len(n.whole) <= scale THEN Zeros(scale - Len(n.whole) + 1) \o n.whole ELSE n.whole IN
  IF n.frac # <<>> /\ scale > 0 THEN <<Malformed>>
  ELSE NumText([neg |-> n.neg, whole |-> SubSeq(ds, 1, Len(ds) - scale), frac |-> SubSeq(ds, Len(ds) - scale + 1, Len(ds))])

NoType == [kind |-> "none", p |-> 0, s |-> 0]
TypeIn(l, r) ==
  LET c == IF l.column THEN l ELSE r IN
  IF c.column /\ c.tok.t \in Columns THEN TypeOf(c.tok.t) ELSE NoType
\* A faulty operandText() that keeps SQLite's scaled integers.
WrittenOperandScaled(d, type, o) ==
  CASE o.column -> <<o.tok>>
    [] type.kind = "bool" /\ o.tok.k = "number" /\ o.tok.n \in {[NoNum EXCEPT !.whole = <<b>>] : b \in 0..1} ->
         <<Word(IF o.tok.n.whole = <<1>> THEN "true" ELSE "false")>>
    [] OTHER -> LiteralText(o.tok)
\* operandText(): 1 and 0 of a bool column, and SQLite's scaled decimals.
WrittenOperand(d, type, o) ==
  CASE o.column -> <<o.tok>>
    [] type.kind = "bool" /\ o.tok.k = "number" /\ o.tok.n \in {[NoNum EXCEPT !.whole = <<b>>] : b \in 0..1} ->
         <<Word(IF o.tok.n.whole = <<1>> THEN "true" ELSE "false")>>
    [] type.kind = "decimal" /\ o.tok.k = "number" /\ d = "sqlite" -> UnscaledDecimal(o.tok.n, type.s)
    [] OTHER -> LiteralText(o.tok)

\* write(): dbspec text with a pair of parentheses for every and and or.
Unknown(o) == o.column /\ o.tok.t \notin Columns
RECURSIVE Written(_, _)
Written(d, p) ==
  LET type == TypeIn(p.left, IF p.kind = "compare" THEN p.right ELSE p.left) IN
  CASE p.kind = "operand" -> <<Malformed>>
    [] p.kind \in {"and", "or"} -> Parens(Written(d, p.left) \o <<Word(p.kind)>> \o Written(d, p.right))
    [] p.kind = "compare" -> WrittenOperand(d, type, p.left) \o <<Op(p.op)>> \o WrittenOperand(d, type, p.right)
    [] p.kind = "in" -> WrittenOperand(d, type, p.left) \o Not(p.negated) \o <<Word("in")>>
                        \o Parens(Commas([j \in DOMAIN p.list |-> WrittenOperand(d, type, Literal(p.list[j]))]))
    [] OTHER -> WrittenOperand(d, type, p.left) \o <<Word("is")>> \o Not(p.negated) \o <<Word("null")>>

WrittenCheck(d, read) == IF read.ok /\ read.node.kind # "operand" THEN Got(Written(d, read.node), 0) ELSE Fail
DecodeTokens(d, toks) == WrittenCheck(d, Whole(toks, DecodeOr(toks, 1)))
DecodeCheck(d, ts) ==
  IF d = "postgres" /\ ~IsWord(ts, 1, "check") THEN Fail
  ELSE DecodeTokens(d, CheckTokens(d, IF d = "postgres" THEN Tail(ts) ELSE ts))
\* The check that an introspected document keeps: the decoded text, parsed.
ParsedAgain(decoded) == IF decoded.ok THEN ReadWhole("line", decoded.node) ELSE Fail
Introspected(d, ts) == ParsedAgain(DecodeCheck(d, ts))

-----------------------------------------------------------------------------
Init ==
  /\ canonical = <<>> /\ form = <<>>
  /\ \/ pc = "line" /\ text \in Texts /\ foreign = FALSE /\ dialect = "none"
     \/ pc = "stored" /\ text \in Foreign /\ foreign = TRUE /\ dialect = "postgres"

\* The parser reads the check line and keeps its canonical text.
Parse ==
  /\ pc = "line"
  /\ \E r \in {ReadWhole("line", text)} :
     \/ r.ok /\ pc' = "parsed" /\ canonical' = PredicateText("dbspec", r.node)
     \/ ~r.ok /\ pc' = "rejected" /\ UNCHANGED canonical
  /\ UNCHANGED <<text, foreign, dialect, form>>

\* The renderer reads the canonical text and writes the constraint.
Render(d) ==
  /\ pc = "parsed"
  /\ pc' = "rendered" /\ dialect' = d
  /\ form' = PredicateText(d, ReadCheck(canonical).node)
  /\ UNCHANGED <<text, foreign, canonical>>

\* The database keeps it.
Store ==
  /\ pc = "rendered"
  /\ pc' = "stored" /\ form' = Stored(dialect, form)
  /\ UNCHANGED <<text, foreign, canonical, dialect>>

\* An introspection reads the constraint, or reports it.
Introspect ==
  /\ pc = "stored"
  /\ \E r \in {Introspected(dialect, IF foreign THEN text ELSE form)} :
     \/ r.ok /\ pc' = "read" /\ form' = PredicateText("dbspec", r.node)
     \/ ~r.ok /\ pc' = "reported" /\ UNCHANGED form
  /\ UNCHANGED <<text, foreign, canonical, dialect>>

Next ==
  \/ Parse
  \/ \E d \in Dialects : Render(d)
  \/ Store
  \/ Introspect

Spec == Init /\ [][Next]_vars

\* The meaning of a text, by its outermost or, then its outermost and: whether it
\* is a predicate, and its value when the simple predicates of v are true.
Depth(ts, i) == Len(SelectSeq(SubSeq(ts, 1, i), LAMBDA t : t = Punct("("))) - Len(SelectSeq(SubSeq(ts, 1, i), LAMBDA t : t = Punct(")")))
Outer(ts, w) == {i \in DOMAIN ts : ts[i] = Word(w) /\ Depth(ts, i) = 0}
First(S) == CHOOSE i \in S : \A j \in S : i <= j
Before(ts, i) == SubSeq(ts, 1, i - 1)
After(ts, i) == SubSeq(ts, i + 1, Len(ts))
Enclosed(ts) == ts # <<>> /\ ts[1] = Punct("(") /\ ts[Len(ts)] = Punct(")") /\ \A i \in 1..(Len(ts) - 1) : Depth(ts, i) > 0
WholeLeaf(ts) == LET r == ReadLeaf("line", ts, 1) IN IF r.ok /\ r.i = Len(ts) + 1 THEN {r.node} ELSE {}
RECURSIVE IsPredicate(_), ValueOf(_, _), TreeValue(_, _), Leaves(_)
IsPredicate(ts) ==
  CASE Outer(ts, "or") # {} -> LET i == First(Outer(ts, "or")) IN IsPredicate(Before(ts, i)) /\ IsPredicate(After(ts, i))
    [] Outer(ts, "or") = {} /\ Outer(ts, "and") # {} ->
         LET i == First(Outer(ts, "and")) IN IsPredicate(Before(ts, i)) /\ IsPredicate(After(ts, i))
    [] OTHER -> IF Enclosed(ts) THEN IsPredicate(SubSeq(ts, 2, Len(ts) - 1)) ELSE WholeLeaf(ts) # {}
ValueOf(ts, v) ==
  CASE Outer(ts, "or") # {} -> LET i == First(Outer(ts, "or")) IN ValueOf(Before(ts, i), v) \/ ValueOf(After(ts, i), v)
    [] Outer(ts, "or") = {} /\ Outer(ts, "and") # {} ->
         LET i == First(Outer(ts, "and")) IN ValueOf(Before(ts, i), v) /\ ValueOf(After(ts, i), v)
    [] OTHER -> IF Enclosed(ts) THEN ValueOf(SubSeq(ts, 2, Len(ts) - 1), v) ELSE WholeLeaf(ts) \subseteq v
TreeValue(p, v) ==
  CASE p.kind = "or" -> TreeValue(p.left, v) \/ TreeValue(p.right, v)
    [] p.kind = "and" -> TreeValue(p.left, v) /\ TreeValue(p.right, v)
    [] OTHER -> p \in v
Leaves(p) == IF p.kind \in {"and", "or"} THEN Leaves(p.left) \cup Leaves(p.right) ELSE {p}

-----------------------------------------------------------------------------
(* Properties.                                                             *)

\* A check line is accepted exactly when it is a predicate (DBS-54 to DBS-57), and
\* the tree that the renderer reads from the canonical text has the value of the
\* line as it was written, whatever its simple predicates are.
CanonicalMeans ==
  /\ pc = "parsed" => IsPredicate(text) /\ \A tree \in {ReadCheck(canonical).node} :
                        \A v \in SUBSET Leaves(tree) : TreeValue(tree, v) = ValueOf(text, v)
  /\ pc = "rejected" => ~IsPredicate(text)

\* The canonical text is a fixed point: parse.ts reads it and writes it again
\* unchanged, so a document that was emitted is not changed by emitting it again.
CanonicalStable ==
  pc = "parsed" => \A again \in {ReadWhole("line", canonical)} : again.ok /\ PredicateText("dbspec", again.node) = canonical

\* docs/spec/dialects.md:305: the schema text of an introspected database equals
\* that of its source.  A check that was rendered and stored is read back with its
\* canonical text; MySQL and PostgreSQL keep a list of one literal as a
\* comparison, and it comes back as that.
ReadBack ==
  ~foreign =>
    /\ pc # "reported"
    /\ pc = "read" =>
         \/ form = canonical
         \/ dialect # "sqlite" /\ form = PredicateText("dbspec", Collapsed(ReadCheck(canonical).node))

\* docs/spec/dialects.md:347-351: a PostgreSQL constraint is read as the predicate
\* it states, "= ANY" for in and "<> ALL" for not in, and one "that does not read
\* as a predicate" is unsupported.  A constraint that is read is the one that
\* PostgreSQL keeps for the predicate read, except that "= ALL" is read as in and
\* "<> ANY" as not in.
Crossed(ts) ==
  \E i \in 1..Len(ts) - 1 : <<ts[i], ts[i + 1]>> \in {<<Op("="), Word("all")>>, <<Op("<>"), Word("any")>>}
ReadsWhatIsStored ==
  foreign /\ pc = "read" /\ ~Crossed(text) =>
    Stored("postgres", PredicateText("postgres", ReadCheck(form).node)) = text
=============================================================================
