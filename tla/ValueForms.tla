---------------------------- MODULE ValueForms ----------------------------
(***************************************************************************)
(* The forms of a value on its way to a column and back: checkParam() and  *)
(* args() bind a host value, the database stores it, the driver hands out  *)
(* a cell, convert() and groupValue() read the cell, and the collection    *)
(* key of the row is made of its cells (bind_check.ts, decimal.ts,         *)
(* model.ts, the time and key forms of database.ts).  A row has two        *)
(* columns, so that its key is a composite one.                            *)
(*                                                                         *)
(* A number is held as its double, so that an odd value is a fraction.     *)
(* Integer ranges are scaled: Safe stands for 2^53 - 1, and an i64 goes    *)
(* beyond it.  The text of a decimal is its sign and digits; the text of a *)
(* time is its wall clock, counted in units of the offsets, its fraction   *)
(* digits and its offset.                                                  *)
(***************************************************************************)
EXTENDS Integers, Sequences, SequencesExt, Functions

CONSTANTS
  Dialects,
  Zones,           \* the time zones of connections, as offsets
  SlotPairs,       \* the types of the two columns of a row
  ValuesOf(_),     \* the host values to write to a column
  Texts,           \* the texts that a LIKE pattern is tried on
  Range16, Range64, Safe,   \* the largest i16 and i64, and the largest exact integer
  MaxWall,         \* the last wall clock of the year 9999; 0 and 1 are in the year 0000
  Width            \* digits that hold every decimal

VARIABLES pc, dialect, zone, row, bound, cells, read, key

vars == <<pc, dialect, zone, row, bound, cells, read, key>>

Refused == [kind |-> "refused"]
Null == [kind |-> "null"]
Num(n) == [kind |-> "number", n |-> n]
Big(n) == [kind |-> "bigint", n |-> n]
Bool(b) == [kind |-> "bool", b |-> b]
Bytes(c) == [kind |-> "bytes", chars |-> c]
Str(c) == [kind |-> "string", shape |-> "plain", chars |-> c]
Dec(neg, w, f) == [kind |-> "string", shape |-> "decimal", neg |-> neg, whole |-> w, frac |-> f]
NoOffset == 99
Time(s, w, f, o) == [kind |-> "string", shape |-> s, wall |-> w, frac |-> f, offset |-> o]

IsString(v) == v.kind = "string"
HasShape(v, s) == IsString(v) /\ v.shape = s

-----------------------------------------------------------------------------
(* Decimals.                                                               *)

Zeros(n) == [i \in 1..n |-> 0]
Padded(f, n) == IF Len(f) >= n THEN f ELSE f \o Zeros(n - Len(f))
Stripped(w) == LET k == {i \in 1..Len(w) : w[i] # 0} IN
               IF k = {} THEN <<0>> ELSE SubSeq(w, CHOOSE i \in k : \A j \in k : i <= j, Len(w))
NumberOf(digits) == FoldLeft(LAMBDA a, d : 10 * a + d, 0, digits)
DigitsOf(n) == [i \in 1..Width |-> (n \div 10^(Width - i)) % 10]

\* A faulty normalizeDecimal() that keeps the sign of a zero.
normalizeDecimalSigned(v, slot) ==
  LET whole == Stripped(v.whole) IN
  IF Len(v.frac) > slot.scale \/ (IF whole = <<0>> THEN 0 ELSE Len(whole)) + slot.scale > slot.precision
  THEN Refused
  ELSE Dec(v.neg, whole, Padded(v.frac, slot.scale))

normalizeDecimal(v, slot) ==
  LET whole == Stripped(v.whole)
      frac == Padded(v.frac, slot.scale)
  IN IF Len(v.frac) > slot.scale \/ (IF whole = <<0>> THEN 0 ELSE Len(whole)) + slot.scale > slot.precision
     THEN Refused
     ELSE Dec(v.neg /\ NumberOf(whole \o frac) # 0, whole, frac)

decimalScaled(v, slot) ==
  LET d == normalizeDecimal(v, slot) IN
  Big(2 * (IF d.neg THEN -1 ELSE 1) * NumberOf(d.whole \o d.frac))

decimalFromScaled(c, slot) ==
  LET n == c.n \div 2
      digits == DigitsOf(IF n < 0 THEN -n ELSE n)
  IN normalizeDecimal(Dec(n < 0, SubSeq(digits, 1, Width - slot.scale), SubSeq(digits, Width - slot.scale + 1, Width)), slot)

-----------------------------------------------------------------------------
(* Dates and times.                                                        *)

FourDigits(w) == w \in 0..MaxWall
YearZero(w) == w \in {0, 1}

NoFraction == <<-1>>
fraction(f, precision) ==
  LET all == Padded(f, precision) IN
  IF \E i \in precision + 1..Len(all) : all[i] # 0 THEN NoFraction ELSE SubSeq(all, 1, precision)

\* timeForm(): the text in the connection's zone with the fraction digits of the
\* column.  A shifted year of other than four digits makes a text cut to 19
\* characters, which is no time text.
timeForm(v, slot, z) ==
  IF ~HasShape(v, slot.type) THEN Refused
  ELSE IF slot.type = "date" THEN v
  ELSE LET f == fraction(v.frac, slot.precision)
           shifted == v.wall - v.offset + z
       IN CASE f = NoFraction -> Refused
            [] f # NoFraction /\ v.offset = NoOffset -> [v EXCEPT !.frac = f]
            [] f # NoFraction /\ v.offset # NoOffset /\ FourDigits(shifted) -> Time(slot.type, shifted, f, NoOffset)
            [] OTHER -> Time("cut", shifted, f, NoOffset)

-----------------------------------------------------------------------------
(* Binding.                                                                *)

IntegerTypes == {"i16", "i64"}
Integral(v) == v.kind \in {"number", "bigint"} /\ v.n % 2 = 0
Within(n, max) == n \in -2 * max - 2 .. 2 * max
RangeOf(type) == IF type = "i16" THEN Range16 ELSE Range64

\* A faulty checkParam() that does not look at the year of the shifted time.
timeAcceptedAny(v, slot, z) == timeForm(v, slot, z) # Refused

timeAccepted(v, slot, z) ==
  LET t == timeForm(v, slot, z) IN
  t # Refused /\ (slot.type # "time" => t.shape # "cut" /\ ~YearZero(t.wall))

\* checkAssign() and checkParam().
checkParam(v, slot, z) ==
  IF v = Null THEN ~slot.notNull
  ELSE CASE slot.type \in IntegerTypes -> Integral(v) /\ Within(v.n, RangeOf(slot.type))
         [] slot.type = "f64" -> v.kind \in {"number", "bigint"}
         [] slot.type = "bool" -> v.kind = "bool"
         [] slot.type = "decimal" -> HasShape(v, "decimal") /\ normalizeDecimal(v, slot) # Refused
         [] slot.type = "varchar" -> HasShape(v, "plain") /\ ~Contains(v.chars, "nul") /\ Len(v.chars) <= slot.length
         [] slot.type = "bytes" -> v.kind = "bytes" \/ HasShape(v, "plain")
         [] slot.type \in {"date", "time", "datetime"} -> timeAccepted(v, slot, z)
         [] OTHER -> HasShape(v, "plain")

\* A faulty pattern that leaves the wildcards of the value as they are.
escapedNot(chars) == chars

escaped(chars) ==
  FoldLeft(LAMBDA a, c : a \o (IF c \in {"\\", "%", "_"} THEN <<"\\", c>> ELSE <<c>>), <<>>, chars)

\* transformParam() of the LIKE operators.
transformParam(kind, v) ==
  Str(CASE kind = "like_contains" -> <<"%">> \o escaped(v.chars) \o <<"%">>
        [] kind = "like_starts" -> escaped(v.chars) \o <<"%">>
        [] kind = "like_ends" -> <<"%">> \o escaped(v.chars))

Likes == {"like_contains", "like_starts", "like_ends"}

\* The param slots of args().
args(v, slot, z, d) ==
  IF ~checkParam(v, slot, z) THEN Refused
  ELSE CASE v = Null -> Null
         [] v # Null /\ slot.type \in Likes -> transformParam(slot.type, v)
         [] v # Null /\ slot.type = "bytes" -> Bytes(v.chars)
         [] v # Null /\ slot.type \in {"date", "time", "datetime"} -> timeForm(v, slot, z)
         [] v # Null /\ slot.type = "decimal" -> IF d = "sqlite" THEN decimalScaled(v, slot) ELSE normalizeDecimal(v, slot)
         [] OTHER -> v

-----------------------------------------------------------------------------
(* Reading.                                                                *)

\* The nearest double: beyond 2^53 only every second integer is one.
Rounded(n) == IF n \in -2 * (Safe + 1) .. 2 * (Safe + 1) THEN n ELSE 4 * ((n + 2) \div 4)
Exact(n) == n \in -2 * Safe .. 2 * Safe
Trimmed(f) == LET k == {i \in 1..Len(f) : f[i] # 0} IN
              SubSeq(f, 1, IF k = {} THEN 0 ELSE CHOOSE i \in k : \A j \in k : j <= i)

\* What the database stores and its driver hands out for a bound value:
\* PostgreSQL writes no trailing zero of a fraction and its int8 parser refuses
\* an integer that a number does not hold; node:sqlite reads integers as bigint.
CellOf(b, slot, d) ==
  CASE b = Null -> Null
    [] b # Null /\ slot.type \in IntegerTypes ->
         CASE d = "mysql" -> Num(Rounded(b.n))
           [] d = "postgres" -> IF Exact(b.n) THEN Num(b.n) ELSE Refused
           [] OTHER -> Big(b.n)
    [] b # Null /\ slot.type = "f64" -> Num(Rounded(b.n))
    [] b # Null /\ slot.type = "bool" ->
         CASE d = "mysql" -> Num(IF b.b THEN 2 ELSE 0)
           [] d = "postgres" -> b
           [] OTHER -> Big(IF b.b THEN 2 ELSE 0)
    [] b # Null /\ slot.type \in {"time", "datetime"} ->
         IF d = "postgres" THEN [b EXCEPT !.frac = Trimmed(b.frac)] ELSE b
    [] OTHER -> b

Truthy == {Bool(TRUE), Num(2), Big(2)}
Falsy == {Bool(FALSE), Num(0), Big(0)}

convertInteger(c, slot) ==
  IF Integral(c) /\ Exact(c.n) /\ Within(c.n, RangeOf(slot.type)) THEN Num(c.n) ELSE Refused

convert(c, slot, z) ==
  IF c \in {Null, Refused} THEN c
  ELSE CASE slot.type \in IntegerTypes -> convertInteger(c, slot)
         [] slot.type = "f64" -> Num(c.n)
         [] slot.type = "decimal" -> IF c.kind = "bigint" THEN decimalFromScaled(c, slot) ELSE normalizeDecimal(c, slot)
         [] slot.type = "bool" -> IF c \in Truthy THEN Bool(TRUE) ELSE IF c \in Falsy THEN Bool(FALSE) ELSE Refused
         [] slot.type \in {"date", "time", "datetime"} -> timeForm(c, slot, z)
         [] slot.type = "bytes" -> Bytes(c.chars)
         [] OTHER -> Str(c.chars)

\* A faulty groupValue() that hands out the boolean cell of the driver.
groupValueRaw(c, slot, z) ==
  CASE c = Null -> IF slot.notNull THEN Refused ELSE Null
    [] c # Null /\ slot.type = "bool" -> c
    [] OTHER -> convert(c, slot, z)

\* groupValue(): a grouped column, which is stricter on the cell it takes.
groupValue(c, slot, z) ==
  CASE c = Null -> IF slot.notNull THEN Refused ELSE Null
    [] c # Null /\ slot.type = "f64" -> IF c.kind = "number" THEN Num(c.n) ELSE Refused
    [] c # Null /\ slot.type = "bytes" -> IF c.kind = "bytes" THEN c ELSE Refused
    [] c # Null /\ slot.type = "varchar" -> IF c.kind \in {"string", "bytes"} THEN Str(c.chars) ELSE Refused
    [] c # Null /\ slot.type \in {"date", "time", "datetime"} -> IF IsString(c) THEN convert(c, slot, z) ELSE Refused
    [] OTHER -> convert(c, slot, z)

-----------------------------------------------------------------------------
(* Collection keys.                                                        *)

Digit(d) == <<"0", "1", "2", "3", "4", "5", "6", "7", "8", "9">>[d + 1]
DigitText(ds) == [i \in 1..Len(ds) |-> Digit(ds[i])]
Point(f) == IF f = <<>> THEN <<>> ELSE <<".">> \o DigitText(f)
NatText(n) == DigitText(Stripped(DigitsOf(n)))
IntText(n) == IF n < 0 THEN <<"-">> \o NatText(-n) ELSE NatText(n)
NumText(n) == IF n % 2 = 0 THEN IntText(n \div 2) ELSE IntText(n \div 2) \o <<".", "5">>

\* DatetimeKey of the text of a cell: its instant without trailing zeros.
DatetimeKey(c) == [kind |-> "date", wall |-> c.wall, frac |-> Trimmed(c.frac)]
InstantText(v) == <<Digit(v.wall)>> \o Point(v.frac)
Hex(chars) == FoldLeft(LAMBDA a, c : a \o <<"h", c>>, <<>>, chars)

StringText(v) ==
  CASE v.shape = "plain" -> v.chars
    [] v.shape = "decimal" -> (IF v.neg THEN <<"-">> ELSE <<>>) \o DigitText(v.whole) \o Point(v.frac)
    [] OTHER -> InstantText(v)

\* The tag and the payload of a key value.
PayloadOf(v) ==
  CASE v.kind = "bool" -> <<"t", IF v.b THEN <<"1">> ELSE <<"0">> >>
    [] v.kind \in {"number", "bigint"} -> <<IF v.n % 2 = 0 THEN "i" ELSE "", NumText(v.n)>>
    [] v.kind = "string" -> <<"s", StringText(v)>>
    [] v.kind = "bytes" -> <<"b", Hex(v.chars)>>
    [] v.kind = "date" -> <<"d", InstantText(v)>>

\* A faulty part of a composite key, without the length of its payload.
compositeKeyPartOpen(v) == LET p == PayloadOf(v) IN <<p[1], ":">> \o p[2]

compositeKeyPart(v) ==
  LET p == PayloadOf(v) IN
  (IF p[1] = "" THEN <<>> ELSE <<p[1]>>) \o NatText(Len(p[2])) \o <<":">> \o p[2]

keyText(v) == <<PayloadOf(v)[1], ":">> \o PayloadOf(v)[2]

\* A faulty composite key that keeps the cells of the driver.
KeyCellAsRead(c, v, slot) == c

\* The component of a composite key: a bool is its value and a datetime its
\* instant, and any other one the cell of the driver.
KeyCell(c, v, slot) ==
  CASE slot.type = "bool" -> v
    [] slot.type = "datetime" -> DatetimeKey(c)
    [] OTHER -> c

\* collectionKey() of a key of the first column, and of both.
collectionKey(r, cs, vs) ==
  [one |-> keyText(IF r[1].slot.type = "datetime" THEN DatetimeKey(cs[1]) ELSE vs[1]),
   both |-> compositeKeyPart(KeyCell(cs[1], vs[1], r[1].slot)) \o compositeKeyPart(KeyCell(cs[2], vs[2], r[2].slot))]

NoKey == [one |-> <<>>, both |-> <<>>]

-----------------------------------------------------------------------------
(* A row is written, read and put into a collection.                       *)

BoundOf(r, d, z) == [i \in 1..2 |-> args(r[i].value, r[i].slot, z, d)]
CellsOf(r, bs, d) == [i \in 1..2 |-> CellOf(bs[i], r[i].slot, d)]
ReadOf(r, cs, z) == [i \in 1..2 |-> convert(cs[i], r[i].slot, z)]
Rows(s1, s2) ==
  {<<[slot |-> s1, value |-> v], [slot |-> s2, value |-> w]>> : v \in ValuesOf(s1), w \in ValuesOf(s2)}
Sound(vs) == \A i \in 1..2 : vs[i] \notin {Refused}
Keyed(vs) == \A i \in 1..2 : vs[i] \notin {Refused, Null}

Init ==
  /\ pc = "bind"
  /\ dialect \in Dialects /\ zone \in Zones
  /\ \E p \in SlotPairs : row \in Rows(p[1], p[2])
  /\ bound = <<>> /\ cells = <<>> /\ read = <<>> /\ key = NoKey

Write ==
  /\ pc = "bind"
  /\ bound' = BoundOf(row, dialect, zone)
  /\ pc' = IF Sound(bound') /\ row[1].slot.type \notin Likes THEN "read" ELSE "end"
  /\ UNCHANGED <<dialect, zone, row, cells, read, key>>

Read ==
  /\ pc = "read"
  /\ cells' = CellsOf(row, bound, dialect)
  /\ read' = ReadOf(row, cells', zone)
  /\ pc' = IF Keyed(read') THEN "key" ELSE "end"
  /\ UNCHANGED <<dialect, zone, row, bound, key>>

Put ==
  /\ pc = "key"
  /\ key' = collectionKey(row, cells, read)
  /\ pc' = "end"
  /\ UNCHANGED <<dialect, zone, row, bound, cells, read>>

Next == Write \/ Read \/ Put

Spec == Init /\ [][Next]_vars

-----------------------------------------------------------------------------
(* Properties.                                                             *)

\* Types of the pipeline.
TypeOK ==
  /\ pc \in {"bind", "read", "key", "end"}
  /\ dialect \in Dialects /\ zone \in Zones /\ <<row[1].slot, row[2].slot>> \in SlotPairs
  /\ {Len(bound), Len(cells), Len(read)} \subseteq {0, 2}

\* What a value of a column stands for: a number, a scaled number, an instant, or
\* its characters.
Means(v, slot, z) ==
  CASE v = Null -> Null
    [] v # Null /\ v.kind \in {"number", "bigint"} -> Num(v.n)
    [] v # Null /\ HasShape(v, "decimal") -> Num((IF v.neg THEN -1 ELSE 1) * NumberOf(v.whole \o Padded(v.frac, Width)))
    [] v # Null /\ IsString(v) /\ v.shape \in {"time", "datetime"} ->
         Time(v.shape, v.wall - (IF v.offset = NoOffset THEN z ELSE v.offset), Trimmed(v.frac), NoOffset)
    [] v # Null /\ slot.type = "bytes" -> Bytes(v.chars)
    [] OTHER -> v

\* An integer that no number holds: bind_check.ts accepts it for an i64, and
\* reading it is an error; in an f64 column it is rounded.
BeyondSafe(v, slot) ==
  v # Null /\ (slot.type = "i64" \/ (slot.type = "f64" /\ v.kind = "bigint")) /\ ~Exact(v.n)

\* bind_check.ts:46: a value that binds is read back as the same value on every
\* database, or the read fails: convert() never hands out another number, instant
\* or text than the one that was written.
ReadsWhatWasBound ==
  read # <<>> => \A i \in 1..2 :
    IF BeyondSafe(row[i].value, row[i].slot)
    THEN row[i].slot.type = "f64" \/ read[i] = Refused
    ELSE Means(read[i], row[i].slot, zone) = Means(row[i].value, row[i].slot, zone)

Plain(b) == IF b \notin {Null, Refused} /\ b.kind = "bigint" THEN Num(b.n) ELSE b

\* protocol.md "Parameters": two texts of one value bind as one form and two
\* values as two, so a comparison with a bound value selects by value on every
\* database, text columns of SQLite included.
OneFormPerValue ==
  pc = "read" => \A v \in ValuesOf(row[1].slot) :
    LET s == row[1].slot
        b == args(v, s, zone, dialect)
    IN b # Refused => (Plain(b) = Plain(bound[1]) <=> Means(v, s, zone) = Means(row[1].value, s, zone))

\* INT-68 (interfaces.md:152): a group value has the value of the column that it
\* was grouped by, in its declared type.
GroupsAsRead ==
  read # <<>> => \A i \in 1..2 : cells[i] # Refused => groupValue(cells[i], row[i].slot, zone) = read[i]

StoredOf(r, d) == CellsOf(r, BoundOf(r, d, zone), d)
KeyOf(r, d) == collectionKey(r, StoredOf(r, d), ReadOf(r, StoredOf(r, d), zone))
HasKey(r) ==
  LET bs == BoundOf(r, dialect, zone) IN Sound(bs) /\ Keyed(ReadOf(r, CellsOf(r, bs, dialect), zone))

\* database.ts:395 and PRT-35 (protocol.md:174): two rows of a collection share a
\* key only when the key columns hold the same values, so no row takes the place
\* of another.
KeysApart ==
  key # NoKey => \A r \in Rows(row[1].slot, row[2].slot) :
    HasKey(r) =>
      LET vs == ReadOf(r, StoredOf(r, dialect), zone)
          k == KeyOf(r, dialect)
      IN /\ k.one = key.one <=> vs[1] = read[1]
         /\ k.both = key.both <=> vs = read

\* docs/spec/feature-coverage.md:38: "each component keeps the declared type of
\* its column on every database", but for a decimal, which is the scaled integer
\* on SQLite, and a time, which PostgreSQL writes without trailing zeros.
KeyOnEveryDatabase ==
  key # NoKey /\ (\A i \in 1..2 : row[i].slot.type \notin {"decimal", "time"}) =>
    \A d \in Dialects : KeyOf(row, d).both = key.both

\* LIKE with the escape character "\".
Like(t, p) ==
  LET match[i \in 1..Len(t) + 1, j \in 1..Len(p) + 1] ==
        IF j > Len(p) THEN i > Len(t)
        ELSE CASE p[j] = "%" -> match[i, j + 1] \/ (i <= Len(t) /\ match[i + 1, j])
               [] p[j] = "_" -> i <= Len(t) /\ match[i + 1, j + 1]
               [] p[j] = "\\" -> j < Len(p) /\ i <= Len(t) /\ t[i] = p[j + 1] /\ match[i + 1, j + 2]
               [] OTHER -> i <= Len(t) /\ t[i] = p[j] /\ match[i + 1, j + 1]
  IN match[1, 1]

HeldAt(t, v, kind) ==
  \E i \in 0..Len(t) - Len(v) :
    /\ SubSeq(t, i + 1, i + Len(v)) = v
    /\ kind = "like_starts" => i = 0
    /\ kind = "like_ends" => i = Len(t) - Len(v)

\* PRT-25 (protocol.md:106): the pattern of a contains, starts or ends condition
\* matches the texts that hold the value itself there, wildcards and escape
\* characters of the value included.
LikesTheValue ==
  bound # <<>> /\ row[1].slot.type \in Likes =>
    \A t \in Texts : Like(t, bound[1].chars) <=> HeldAt(t, row[1].value.chars, row[1].slot.type)
=============================================================================
