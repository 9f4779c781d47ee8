---------------------------- MODULE CatalogValues ----------------------------
(***************************************************************************)
(* The values of the catalog connection (catalog.ts): what a driver value  *)
(* becomes in a described table and in a grid, how cells are compared, and *)
(* how the text of a single-precision float is rounded.  A stored value is *)
(* the member of a small set that the conversions tell apart; a temporal   *)
(* value is the number of digits its fraction needs, and its text has the  *)
(* digits it is written with.  The float format is a parameter.            *)
(***************************************************************************)
EXTENDS Integers, Sequences, FiniteSets, FiniteSetsExt

CONSTANTS
  FracBits, MinExp, MaxExp,   \* 23, -126 and 127 in the code
  Nums, Dens                  \* the decimal numbers num/den that are rounded

VARIABLES
  col,      \* the column that is read
  a, b,     \* two stored values of it
  num, den  \* a float text

vars == <<col, a, b, num, den>>

-----------------------------------------------------------------------------
(* Columns and what the drivers deliver.                                   *)

C(d, class, native, p) == [dialect |-> d, class |-> class, native |-> native, p |-> p]
NoCheck == -1
Columns ==
  {C("mysql", "int", "int", 0), C("mysql", "unsigned", "bigint unsigned", 0), C("mysql", "bool", "tinyint(1)", 0),
   C("mysql", "float32", "float", 0), C("mysql", "float64", "double", 0), C("mysql", "decimal", "decimal", 0),
   C("mysql", "text", "varchar", 0), C("mysql", "binary", "blob", 0), C("mysql", "temporal", "time(3)", 3), C("mysql", "temporal", "time", 0),
   C("mysql", "zoned", "timestamp", 0),
   C("postgres", "int", "int8", 0), C("postgres", "bool", "boolean", 0), C("postgres", "float32", "float4", 0),
   C("postgres", "float64", "float8", 0), C("postgres", "decimal", "numeric", 0), C("postgres", "text", "text", 0),
   C("postgres", "binary", "bytea", 0), C("postgres", "temporal", "timestamp", 6), C("postgres", "temporal", "timestamp(3)", 3),
   C("postgres", "zoned", "timestamptz", 6),
   C("sqlite", "int", "INTEGER", 0), C("sqlite", "bool", "BOOLEAN", 0), C("sqlite", "float64", "REAL", 0), C("sqlite", "text", "TEXT", 0),
   C("sqlite", "binary", "BLOB", 0), C("sqlite", "temporal", "DATETIME", 3), C("sqlite", "temporal", "TIME", NoCheck)}

Ints == {"0", "1", "2", "unsafe"}
Floats == {"zero", "minus zero", "half", "infinite"}

\* What a column can hold.  SQLite keeps any value in any column: a text in an integer
\* column, and bytes, valid text or not, in a text column.
Held(c) ==
  {"null"} \cup
  (CASE c.class = "int" -> (IF c.dialect = "sqlite" THEN Ints \cup {"text 1"} ELSE Ints)
     [] c.class = "unsigned" -> Ints \cup {"over"}
     [] c.class = "bool" -> (IF c.dialect = "postgres" THEN {"0", "1"} ELSE {"0", "1", "2"})
     [] c.class \in {"float32", "float64"} -> Floats
     [] c.class = "decimal" -> (IF c.dialect = "postgres" THEN {"dec", "dec nan"} ELSE {"dec"})
     [] c.class = "text" -> (IF c.dialect = "sqlite" THEN {"word", "bytes of word", "not UTF-8"} ELSE {"word"})
     [] c.class = "binary" -> {"bytes of word", "not UTF-8"}
     [] OTHER -> {})

\* A temporal value: its fraction needs `need` digits and its text shows `shown`, which
\* MySQL fixes, PostgreSQL trims and SQLite keeps as they were written.
Digits == {0, 3, 6}
Temporals(c) ==
  IF c.class \notin {"temporal", "zoned"} THEN {}
  ELSE {t \in [v : {"time"}, need : Digits, shown : Digits] :
          CASE c.dialect = "mysql" -> t.shown = c.p /\ t.need <= c.p
            [] c.dialect = "postgres" -> t.shown = t.need /\ t.need <= c.p
            [] OTHER -> t.need <= t.shown}
Values(c) == [v : Held(c), need : {0}, shown : {0}] \cup Temporals(c)

\* The form of a driver value in the exact mode of the pool.
Form(c, v) ==
  CASE v = "text 1" -> "string"
    [] c.class \in {"int", "unsigned"} -> (IF c.dialect = "sqlite" THEN "bigint" ELSE IF c.dialect = "postgres" \/ v \in {"unsafe", "over"} THEN "string" ELSE "number")
    [] c.class = "bool" -> (IF c.dialect = "postgres" THEN "boolean" ELSE IF c.dialect = "sqlite" THEN "bigint" ELSE "number")
    [] c.class = "float32" -> "string" [] c.class = "float64" -> "number"
    [] v \in {"bytes of word", "not UTF-8"} -> "bytes"
    [] OTHER -> "string"

-----------------------------------------------------------------------------
(* Conversions.  A cell has a type and a value; an error has a code.       *)

Cell(t, v) == [type |-> t, val |-> v]
Time(d, n) == [type |-> "time", need |-> n, shown |-> d]
Error(code) == [type |-> "error", val |-> code]
IsError(x) == x.type = "error"
Null == Cell("null", "null")

\* integerValue(): a number inside the safe range, else a bigint.
IntegerValue(v) == Cell(IF v \in {"unsafe", "over"} THEN "bigint" ELSE "number", v)

\* bytesValue(): bytes of a text column that are a text are that text.
BytesValue(c, v) == IF v = "bytes of word" /\ c.class = "text" THEN Cell("text", "word") ELSE Cell("bytes", v)

\* plainValue().
PlainValue(c, v) ==
  LET f == Form(c, v) IN
  CASE v = "null" -> Null
    [] f = "boolean" -> Cell("boolean", v)
    [] f = "bytes" -> BytesValue(c, v)
    [] v # "null" /\ f # "boolean" /\ c.class \in {"int", "unsigned", "bool"} -> (IF v = "text 1" THEN Cell("text", v) ELSE IntegerValue(v))
    [] v # "null" /\ c.class = "float64" -> (IF v = "infinite" THEN Error("CATALOG_VALUE") ELSE Cell("number", v))
    [] v # "null" /\ c.class = "float32" -> Cell("number", v)
    [] OTHER -> Cell("text", v)

\* A faulty reader that gives the text of a fraction as it came.
DescribedTimeAsIs(c, t) ==
  IF c.class = "zoned" THEN Error("CATALOG_VALUE")
  ELSE Time(t.shown, t.need)

\* sqliteTemporal(): the stored text must show the digits that the CHECK of its column
\* fixes, none without a CHECK.
SqliteTemporal(c, t) ==
  IF t.shown # (IF c.p = NoCheck THEN 0 ELSE c.p) THEN Error("GRID_TEMPORAL_PRECISION") ELSE Time(t.shown, t.need)

\* describedTemporal(): the text is filled to six digits and cut to the declared ones.
DescribedTemporal(c, t) == IF t.need > c.p THEN Error("GRID_TEMPORAL_PRECISION") ELSE Time(c.p, t.need)

DescribedTime(c, t) ==
  IF c.class = "zoned" THEN Error("CATALOG_VALUE")
  ELSE IF c.dialect = "sqlite" THEN SqliteTemporal(c, t) ELSE DescribedTemporal(c, t)

\* describedValue() and describedBoolean().
DescribedValue(c, v) ==
  LET plain == PlainValue(c, v) IN
  IF IsError(plain) \/ c.class # "bool" \/ v = "null" \/ plain.type = "boolean" THEN plain
  ELSE IF plain.val \in {"0", "1"} THEN Cell("boolean", v)
  ELSE Error("CATALOG_VALUE")

\* A faulty gridCell() that takes an integer only as a number.
GridValueNumbers(c, v) ==
  IF v = "null" THEN Null
  ELSE IF c.dialect # "sqlite" /\ c.class \in {"int", "unsigned"} /\ Form(c, v) = "string" THEN Error("CATALOG_VALUE")
  ELSE IF v = "dec nan" THEN Error("CATALOG_VALUE")
  ELSE Cell(c.class, v)

\* gridCell() and sqliteGridCell(): a boolean of MySQL or SQLite stays an integer, and a
\* decimal that is not finite has no grid form.
GridValue(c, v) ==
  CASE v = "null" -> Null
    [] v # "null" /\ c.dialect = "sqlite" ->
         Cell(CASE Form(c, v) = "bigint" -> "integer" [] Form(c, v) = "number" -> "float64" [] Form(c, v) = "string" -> "text" [] OTHER -> "binary", v)
    [] v = "dec nan" -> Error("CATALOG_VALUE")
    [] v # "null" /\ c.dialect = "mysql" /\ c.class = "bool" -> Cell("integer", v)
    [] OTHER -> Cell(c.class, v)
GridTime(c, t) ==
  IF c.class = "zoned" THEN Error("CATALOG_VALUE")
  ELSE IF c.dialect = "sqlite" THEN Time(t.shown, t.need)
  ELSE Time(6, t.need)

\* A faulty key that writes the two zeros alike.
CellKeyNumeric(x) ==
  IF x.val = "infinite" THEN Error("CATALOG_SNAPSHOT") ELSE Cell(x.type, IF x.val = "minus zero" THEN "zero" ELSE x.val)

\* cellKey(): the type and the exact value of a cell; a number that is not finite has none.
CellKey(x) == IF x.val = "infinite" THEN Error("CATALOG_SNAPSHOT") ELSE x

Described(c, x) == IF x.v = "time" THEN DescribedTime(c, x) ELSE DescribedValue(c, x.v)
Grid(c, x) == IF x.v = "time" THEN GridTime(c, x) ELSE GridValue(c, x.v)
Key(x) == IF x.type = "time" THEN x ELSE CellKey(x)

\* A faulty checkChanges() that takes any temporal text.
AssignableAny(c, t) == TRUE

\* checkChanges() and declaredTemporalPrecision(): a text with more fraction digits than
\* the column declares, or than its CHECK fixes, is refused.
Assignable(c, t) == c.p # NoCheck => t.shown <= c.p

\* What the database stores of an assigned text: MySQL and PostgreSQL round to the digits
\* of the column, SQLite keeps the text.  External.
Lower(m, n) == IF m < n THEN m ELSE n
Stored(c, t) ==
  CASE c.dialect = "mysql" -> [need |-> Lower(t.need, c.p), shown |-> c.p]
    [] c.dialect = "postgres" -> [need |-> Lower(t.need, c.p), shown |-> Lower(t.need, c.p)]
    [] OTHER -> t

-----------------------------------------------------------------------------
(* float32BitsOfText(): the bits of num/den, rounded once.                 *)

Bias == 1 - MinExp
Infinity == (MaxExp + Bias + 1) * 2^FracBits
AtLeastPowerOfTwo(e) == IF e >= 0 THEN num >= den * 2^e ELSE num * 2^(-e) >= den

\* A faulty rounding that cuts.
RoundScaledCut(s) ==
  LET n == IF s >= 0 THEN num * 2^s ELSE num
      d == IF s >= 0 THEN den ELSE den * 2^(-s)
  IN  n \div d

RoundScaled(s) ==
  LET n == IF s >= 0 THEN num * 2^s ELSE num
      d == IF s >= 0 THEN den ELSE den * 2^(-s)
      q == n \div d
      twice == (n % d) * 2
  IN  IF twice > d \/ (twice = d /\ q % 2 = 1) THEN q + 1 ELSE q

BitLength(n) == Max({0} \cup {e + 1 : e \in {e \in 0..20 : 2^e <= n}})
Exponent ==
  LET e0 == BitLength(num) - BitLength(den) IN
  Max({e \in e0 - 1..e0 + 1 : AtLeastPowerOfTwo(e)})

Float32Bits ==
  IF num = 0 THEN 0
  ELSE IF Exponent >= MinExp
  THEN LET q == RoundScaled(FracBits - Exponent)
           carry == q = 2^(FracBits + 1)
           e == IF carry THEN Exponent + 1 ELSE Exponent
       IN  IF e > MaxExp THEN Infinity
           ELSE (e + Bias) * 2^FracBits + (IF carry THEN 0 ELSE q - 2^FracBits)
  ELSE RoundScaled(FracBits - MinExp)

-----------------------------------------------------------------------------
\* Every column with two of its values, and every number.
Init ==
  \/ /\ col \in Columns
     /\ a \in Values(col) /\ b \in Values(col)
     /\ num = 0 /\ den = 1
  \/ /\ col = C("sqlite", "none", "", 0) /\ a \in Values(col) /\ b = a
     /\ num \in Nums /\ den \in Dens

Next == UNCHANGED vars
Spec == Init /\ [][Next]_vars

-----------------------------------------------------------------------------
(* Properties.                                                             *)

\* catalog.ts:646: "Two cells are equal exactly when their keys are equal", and with
\* them the stored values: a row that another connection changed is never taken for the
\* row of the snapshot.  Only bytes of a SQLite text column that spell the same text are
\* not told apart.
Same(c, x, y) ==
  /\ x.need = y.need
  /\ x.v = y.v \/ (c.class = "text" /\ {x.v, y.v} = {"word", "bytes of word"})
KeyTellsApart ==
  LET x == Key(Described(col, a))
      y == Key(Described(col, b))
  IN  ~IsError(x) /\ ~IsError(y) => (x = y <=> Same(col, a, b))

\* A temporal cell of a described table has the fraction digits of its column, whatever
\* the driver's text shows (catalog.ts:417: "exactly p fraction digits").
DeclaredDigits ==
  \A t \in Temporals(col) :
    LET x == DescribedTime(col, t) IN ~IsError(x) => x.shown = (IF col.p = NoCheck THEN 0 ELSE col.p)

\* An accepted assignment of a temporal text stores that instant: no digit is lost in the
\* database without an error.
NothingRounded ==
  \A t \in [v : {"time"}, need : Digits, shown : Digits] :
    col.class = "temporal" /\ t.need <= t.shown /\ Assignable(col, t) => Stored(col, t).need = t.need

\* What a described table shows, a grid query shows too: it refuses no other value than a
\* decimal that is not finite.
GridShows == ~IsError(Described(col, a)) => a.v = "dec nan" \/ ~IsError(Grid(col, a))

\* float32BitsOfText() gives the representable number nearest to the text, and of two the
\* one with the even fraction; a number past the largest by half a unit is infinite.  The
\* value of bit pattern i, scaled by 2^(FracBits - MinExp):
ValueOf(i) ==
  LET e == i \div 2^FracBits
      f == i % 2^FracBits
  IN  IF e = 0 THEN f ELSE (2^FracBits + f) * 2^(e - 1)
Distance(i) ==
  LET x == num * 2^(FracBits - MinExp) - den * ValueOf(i) IN IF x < 0 THEN -x ELSE x
Float32Nearest ==
  \A i \in 0..Infinity :
    LET r == Float32Bits IN
    i # r => Distance(r) < Distance(i) \/ (Distance(r) = Distance(i) /\ r % 2 = 0)
    \/ (r = Infinity /\ num * 2^(FracBits - MinExp) >= den * ValueOf(Infinity))
=============================================================================
