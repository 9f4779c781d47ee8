------------------------------ MODULE MCWrites ------------------------------
(***************************************************************************)
(* The parts of writing and reading rows checked in one run: the writes of *)
(* model objects, the audit record of a transaction, the forms of a value, *)
(* and the rows, results and cells of the catalog.  They share no state: a *)
(* behaviour chooses one part, whose variables are the first of v1 to v17; *)
(* the others stay Unused.                                                 *)
(***************************************************************************)
EXTENDS Integers, Sequences, FiniteSets, TLC

CONSTANTS
  Handles, MaxClock, Disciplines,                  \* RowWrites
  MaxRowWrites,                                    \* its MaxWrites
  Callers, MaxWrites, MaxDepth,                    \* AuditRecord
  Zones, Range16, Range64, Safe, MaxWall, Width,   \* ValueForms
  Clients, Keys, Vals, MaxOps, MaxOther,           \* CatalogRows
  RowLimits, ByteLimits,                           \* CatalogStream
  FracBits, MaxExp                                 \* CatalogValues

Unused == "unused"

VARIABLES part, v1, v2, v3, v4, v5, v6, v7, v8, v9, v10, v11, v12, v13, v14, v15, v16, v17

after5 == <<v6, v7, v8>>
after7 == v8
after8 == <<v9, v10, v11, v12, v13>>
after13 == <<v14, v15>>
after15 == <<v16, v17>>
all == <<part, v1, v2, v3, v4, v5, v6, v7, v8, v9, v10, v11, v12, v13, v14, v15, v16, v17>>

-----------------------------------------------------------------------------
(***************************************************************************)
(* The columns, host values and texts that ValueForms is checked with: per *)
(* type the values at and past its bounds, several texts of one value, and *)
(* texts that could be taken for the parts of a key.                       *)
(***************************************************************************)
ValColumn(t) == [type |-> t, precision |-> 0, scale |-> 0, length |-> 2, notNull |-> TRUE]
ValI16 == [ValColumn("i16") EXCEPT !.notNull = FALSE]
ValDecimal1 == [ValColumn("decimal") EXCEPT !.precision = 3, !.scale = 1]
ValDatetime1 == [ValColumn("datetime") EXCEPT !.precision = 1]
ValTime2 == [ValColumn("time") EXCEPT !.precision = 2]
ValLikes == {"like_contains", "like_starts", "like_ends"}

ValNull == [kind |-> "null"]
ValNum(n) == [kind |-> "number", n |-> n]
ValStr(c) == [kind |-> "string", shape |-> "plain", chars |-> c]
ValInstant(s, w, f, o) == [kind |-> "string", shape |-> s, wall |-> w, frac |-> f, offset |-> o]
ValLocal == 99   \* a text without an offset

ValNums == {ValNum(n) : n \in {-16, -6, -1, 0, 2, 10}} \cup {[kind |-> "bigint", n |-> n] : n \in {-18, 2, 10, 14}}
ValDecimals == [kind : {"string"}, shape : {"decimal"}, neg : BOOLEAN,
             whole : {<<0>>, <<1>>, <<0, 1>>, <<1, 0>>, <<1, 1, 0>>}, frac : {<<>>, <<0>>, <<1>>, <<0, 1>>}]
ValWalls == {0, 1, 2, 4, 6}
ValInstants(t, os) == {ValInstant(t, w, f, o) : w \in ValWalls, f \in {<<>>, <<5>>, <<5, 0>>, <<0, 5>>}, o \in os}
ValColumnValues(slot) ==
  CASE slot.type = "i16" -> ValNums \cup {ValNull}
    [] slot.type = "i64" -> ValNums \cup {ValNull, ValStr(<<"1">>)}
    [] slot.type = "f64" -> ValNums
    [] slot.type = "bool" -> {[kind |-> "bool", b |-> b] : b \in BOOLEAN} \cup {ValNum(2)}
    [] slot.type = "decimal" -> ValDecimals
    [] slot.type = "varchar" ->
         {ValStr(c) : c \in {<<>>, <<"1">>, <<"s", ":">>, <<"1", ":">>, <<"s", "1">>, <<"nul">>, <<"s", "1", ":">>}}
    [] slot.type = "bytes" -> {ValStr(<<"a">>), ValStr(<<"a", "h">>), [kind |-> "bytes", chars |-> <<"a">>]}
    [] slot.type = "datetime" -> ValInstants("datetime", {ValLocal, -2, 1})
    [] slot.type = "time" -> ValInstants("time", {ValLocal})
    [] slot.type = "date" -> {ValInstant("date", w, <<>>, ValLocal) : w \in ValWalls}
    [] OTHER -> {ValStr(c) : c \in UNION {[1..n -> {"a", "%", "_", "\\"}] : n \in 0..2}}
ValColumnPairs ==
  {<<s, ValColumn("bool")>> : s \in {ValI16, ValDecimal1, ValDatetime1, ValTime2} \cup
     {ValColumn(k) : k \in {"i64", "f64", "bool", "varchar", "bytes", "date"} \cup ValLikes}}
  \cup {<<s, ValColumn("varchar")>> : s \in {ValColumn("varchar"), ValI16, ValColumn("bool")}}
ValLikeTexts == UNION {[1..n -> {"a", "b", "%", "\\"}] : n \in 0..3}

-----------------------------------------------------------------------------
(* The instances.                                                          *)

Dialects == {"mysql", "postgres", "sqlite"}

KeyVersion == [h \in Handles |-> IF h = "h1" THEN 1 ELSE 2]

Audited ==
  [hasSource |-> TRUE, tables |-> {"r"}, owned |-> {"r"}, keyColumns |-> 1, columns |-> {"a", "b"},
   source |-> "a" :> 1, values |-> "a" :> 2]
Configs == {
  Audited,
  [Audited EXCEPT !.hasSource = FALSE], [Audited EXCEPT !.tables = {}], [Audited EXCEPT !.tables = {"r", "s"}],
  [Audited EXCEPT !.owned = {}], [Audited EXCEPT !.keyColumns = 2], [Audited EXCEPT !.values = "c" :> 1],
  [Audited EXCEPT !.values = <<>>], [Audited EXCEPT !.source = <<>>],
  [Audited EXCEPT !.source = <<>>, !.values = <<>>]}


FirstRows == {[k \in Keys |-> IF k = "k1" THEN 1 ELSE 0]}

ResultRows == [size : {1, 2}, marked : BOOLEAN, bad : BOOLEAN]
StreamResults == UNION {[1..n -> ResultRows] : n \in 0..3}

W == INSTANCE RowWrites WITH
       discipline <- v1, row <- v2, handle <- v3, pc <- v4, clock <- v5, count <- v6, shared <- v7,
       Version <- KeyVersion, MaxWrites <- MaxRowWrites
A == INSTANCE AuditRecord WITH
       dialect <- v1, config <- v2, outcome <- v3, server <- v4, marks <- v5, audit <- v6, values <- v7, nested <- v8,
       call <- v9, reported <- v10, ids <- v11, writes <- v12, caught <- v13, Dialects <- {"mysql", "postgres"}
F == INSTANCE ValueForms WITH
       pc <- v1, dialect <- v2, zone <- v3, row <- v4, bound <- v5, cells <- v6, read <- v7, key <- v8,
       SlotPairs <- ValColumnPairs, ValuesOf <- ValColumnValues, Texts <- ValLikeTexts
C == INSTANCE CatalogRows WITH
       dialect <- v1, desc <- v2, trig <- v3, rows <- v4, locks <- v5, meta <- v6, pc <- v7, op <- v8, snap <- v9,
       view <- v10, cur <- v11, own <- v12, open <- v13, result <- v14, applied <- v15, ops <- v16, others <- v17,
       Start <- FirstRows
S == INSTANCE CatalogStream WITH
       dialect <- v1, result <- v2, maxRows <- v3, maxBytes <- v4, keep <- v5, at <- v6, pass <- v7, rows <- v8,
       bytes <- v9, past <- v10, lossy <- v11, overflow <- v12, failure <- v13, stopped <- v14, state <- v15,
       Results <- StreamResults, Dialects <- {"mysql", "sqlite"}, Keeps <- {-1, 1, 2}
G == INSTANCE CatalogValues WITH
       col <- v1, a <- v2, b <- v3, num <- v4, den <- v5, MinExp <- -2, Nums <- 0..90, Dens <- {1, 10, 16, 100}

-----------------------------------------------------------------------------
(* The run.                                                                *)

No6To8 == v6 = Unused /\ v7 = Unused /\ v8 = Unused
No9To13 == v9 = Unused /\ v10 = Unused /\ v11 = Unused /\ v12 = Unused /\ v13 = Unused
No14To15 == v14 = Unused /\ v15 = Unused
No16To17 == v16 = Unused /\ v17 = Unused

Init ==
  \/ part = "rows" /\ W!Init /\ v8 = Unused /\ No9To13 /\ No14To15 /\ No16To17
  \/ part = "audit" /\ A!Init /\ No14To15 /\ No16To17
  \/ part = "values" /\ F!Init /\ No9To13 /\ No14To15 /\ No16To17
  \/ part = "catalog" /\ C!Init
  \/ part = "stream" /\ S!Init /\ No16To17
  \/ part = "cells" /\ G!Init /\ No6To8 /\ No9To13 /\ No14To15 /\ No16To17

Next ==
  \/ part = "rows" /\ W!Next /\ UNCHANGED <<part, after7, after8, after13, after15>>
  \/ part = "audit" /\ A!Next /\ UNCHANGED <<part, after13, after15>>
  \/ part = "values" /\ F!Next /\ UNCHANGED <<part, after8, after13, after15>>
  \/ part = "catalog" /\ C!Next /\ UNCHANGED part
  \/ part = "stream" /\ S!Next /\ UNCHANGED <<part, after15>>
  \/ part = "cells" /\ G!Next /\ UNCHANGED <<part, after5, after8, after13, after15>>

Spec == Init /\ [][Next]_all

-----------------------------------------------------------------------------
(* The properties of the parts, each of the behaviours of its part.        *)

\* Types of the part that runs (TypeOK of its module).
TypeOK ==
  /\ part = "rows" => W!TypeOK
  /\ part = "audit" => A!TypeOK
  /\ part = "values" => F!TypeOK
  /\ part = "catalog" => C!TypeOK
  /\ part = "stream" => S!TypeOK

\* RowWrites: the key version of a row is the one of each of its AES columns.
KeyVersionDescribesRow == part = "rows" => W!KeyVersionDescribesRow

\* RowWrites: an update that expects what its object read loses no other update.
NoLostUpdate == [][part = "rows" => W!NoLostUpdateStep]_all

\* RowWrites: no update and no delete reaches a soft-deleted row, and no restore a
\* live one.
DeletedRowsRest == [][part = "rows" => W!DeletedRowsRestStep]_all

\* AuditRecord: an audited row names a record that is there.
RowsReferToRecord == part = "audit" => A!RowsReferToRecord

\* AuditRecord: a unit of work has one record, and none without audited rows.
OneRecordForRows == part = "audit" => A!OneRecordForRows

\* AuditRecord: undoing the record of one write undoes no write that returned.
ReportedRowsStay == [][part = "audit" => A!ReportedRowsStayStep]_all

\* ValueForms: a value that binds is read back as the same value.
ReadsWhatWasBound == part = "values" => F!ReadsWhatWasBound

\* ValueForms: the texts of one value bind as one form.
OneFormPerValue == part = "values" => F!OneFormPerValue

\* ValueForms: a group value has the value of its column.
GroupsAsRead == part = "values" => F!GroupsAsRead

\* ValueForms: rows of a collection share a key only when their keys are equal.
KeysApart == part = "values" => F!KeysApart

\* ValueForms: the key of a row is the same on every database.
KeyOnEveryDatabase == part = "values" => F!KeyOnEveryDatabase

\* ValueForms: a LIKE pattern matches the texts that hold the value itself.
LikesTheValue == part = "values" => F!LikesTheValue

\* CatalogRows: a page is read from the table that its descriptor describes.
PageOfOneTable == part = "catalog" => C!PageOfOneTable

\* CatalogRows: a committed change replaces the row of its snapshot.
ReplacesSnapshot == [][part = "catalog" => C!ReplacesSnapshotStep]_all

\* CatalogRows: a change returns the row that its commit stores.
ReturnsStored == [][part = "catalog" => C!ReturnsStoredStep]_all

\* CatalogRows: the outcome that is reported is the outcome on the database.
OutcomeTrue == part = "catalog" => C!OutcomeTrue

\* CatalogStream: a result over its budget is refused, never truncated.
NeverTruncated == part = "stream" => S!NeverTruncated

\* CatalogStream: an answer is the result of one execution.
OneExecution == part = "stream" => S!OneExecution

\* CatalogStream: a connection with unread rows is not used again.
UnreadDiscards == part = "stream" => S!UnreadDiscards

\* CatalogValues: cells have one key exactly when their values are the same.
KeyTellsApart == part = "cells" => G!KeyTellsApart

\* CatalogValues: a temporal cell has the digits of its column.
DeclaredDigits == part = "cells" => G!DeclaredDigits

\* CatalogValues: an accepted assignment loses no digit.
NothingRounded == part = "cells" => G!NothingRounded

\* CatalogValues: a grid query shows what a described table shows.
GridShows == part = "cells" => G!GridShows

\* CatalogValues: the single-precision number of a text is the nearest one.
Float32Nearest == part = "cells" => G!Float32Nearest

\* A row says truly what made it: the key version of its AES columns, and the audit
\* record of the unit of work that wrote it.
RowsDescribed == TypeOK /\ KeyVersionDescribesRow /\ RowsReferToRecord /\ OneRecordForRows

\* No write takes away what it may not: another client's update, a soft-deleted
\* row, a write that was reported done, or a row that is not the one edited.
RowsKept == NoLostUpdate /\ DeletedRowsRest /\ ReportedRowsStay /\ ReplacesSnapshot /\ ReturnsStored

\* A value is the same value in every form it takes: bound, stored, read, grouped,
\* searched for, and as part of a key, on every database.
ValuesKept ==
  /\ ReadsWhatWasBound /\ OneFormPerValue /\ GroupsAsRead
  /\ KeysApart /\ KeyOnEveryDatabase /\ LikesTheValue

\* What the catalog shows is in the database: whole pages of one table, the outcome
\* of a change, all rows of one execution, and cells that neither merge nor round.
CatalogTrue ==
  /\ PageOfOneTable /\ OutcomeTrue /\ NeverTruncated /\ OneExecution /\ UnreadDiscards
  /\ KeyTellsApart /\ DeclaredDigits /\ NothingRounded /\ GridShows /\ Float32Nearest
=============================================================================
