----------------------------- MODULE SplitReads -----------------------------
(***************************************************************************)
(* A read whose root IN list needs more bind parameters than the driver    *)
(* permits (query(), scalar(), splitReadPlan() and rootInParts() of        *)
(* database.ts).  The list is padded to a power of two, cut into parts of  *)
(* one statement each, and the rows or counts of the parts are merged.     *)
(* Another client may write a row between two parts.                       *)
(***************************************************************************)
EXTENDS Integers, Sequences, FiniteSets, SequencesExt, FiniteSetsExt

CONSTANTS
  Limit,      \* driverLimit(): 999 on SQLite, 65535 on MySQL and PostgreSQL
  Values,     \* the values of the column of the IN list
  MaxList,    \* the longest list that the application gives
  Wheres,     \* the root conditions: sequences of items
  Tables      \* the contents of the table: sets of rows

Kinds == {"all", "count", "sum"}

\* An item of the root group: the IN list, another predicate with its number of
\* bind parameters, or a group.  Rows say for each item but the list if it holds.
InItem(conn) == [kind |-> "in", conn |-> conn, at |-> 0, binds |-> 0]
PredItem(conn, at, binds) == [kind |-> "pred", conn |-> conn, at |-> at, binds |-> binds]
GroupItem(conn, at, binds) == [kind |-> "group", conn |-> conn, at |-> at, binds |-> binds]

VARIABLES
  table,      \* the rows of the table: id, value of the list's column, items that hold
  request,    \* its kind, root items, the values of its longest IN list, and if it
              \* has a limit, an order or a group by
  stage,
  parts,      \* the lists of the statements to run
  main,       \* the rows merged so far
  total,      \* the counts added so far
  moved,      \* another client has written since the read began
  bound,      \* the bind parameters of the last statement
  code        \* the error of the read

vars == <<table, request, stage, parts, main, total, moved, bound, code>>

\* canonicalize(): an IN list repeats its last value up to a power of two.
Bucket(n) == CHOOSE b \in {2^i : i \in 0..n} : b >= n /\ b < 2 * n
Padded(list) == [i \in 1..Bucket(Len(list)) |-> list[Min({i, Len(list)})]]

Init ==
  /\ table \in Tables
  /\ \E k \in Kinds, w \in Wheres, n \in 1..MaxList, limited \in BOOLEAN :
       \E list \in [1..n -> Values] :
         request = [kind |-> k, where |-> w, list |-> Padded(list), limited |-> limited]
  /\ stage = "plan" /\ parts = <<>> /\ main = <<>> /\ total = 0
  /\ moved = FALSE /\ bound = 0 /\ code = "none"

\* The bind parameters that the other items need.
Others == FoldFunction(+, 0, [i \in DOMAIN request.where |-> request.where[i].binds])
Paging == IF request.limited THEN 2 ELSE 0
\* splitReadPlan(): the bind slots of the whole request.
Slots == Others + Paging + Len(request.list)

HasConn(i, c) == i \in DOMAIN request.where /\ request.where[i].conn = c

\* The connectors that rootInParts() reads: those of a root predicate, and of the
\* item that follows one.
SplitByAnd ==
  \A i \in DOMAIN request.where :
    request.where[i].kind # "group" => ~HasConn(i, "or") /\ ~HasConn(i + 1, "or")

Available == Limit - (Slots - Len(request.list))
Unsplit == request.limited \/ ~SplitByAnd \/ Available < 1

\* A faulty size that ignores what the padding adds.
ChunkPlain(n) == n

\* The largest power of two that n permits.
Chunk(n) == Max({b \in {2^i : i \in 0..n} : b <= n})

\* The list without its repeated values.
Unique == FoldLeft(LAMBDA seen, v : IF Contains(seen, v) THEN seen ELSE Append(seen, v), <<>>, request.list)

\* Faulty parts that keep the repeated values of the list.
SplitPartsRepeated ==
  LET size == Chunk(Available) IN
  [k \in 1..((Len(request.list) + size - 1) \div size) |->
     Padded(SubSeq(request.list, (k - 1) * size + 1, Min({k * size, Len(request.list)})))]

\* The parts of rootInParts(): slices of the list, each padded to a power of two.
SplitParts ==
  LET size == Chunk(Available) IN
  [k \in 1..((Len(Unique) + size - 1) \div size) |->
     Padded(SubSeq(Unique, (k - 1) * size + 1, Min({k * size, Len(Unique)})))]

Refuse == stage' = "failed" /\ code' = "IR_INVALID" /\ UNCHANGED <<table, request, parts, main, total, moved, bound>>

\* readParts(), and the check of scalar() that only a count merges several parts.
Plan ==
  /\ stage = "plan"
  /\ \/ /\ Slots <= Limit
        /\ stage' = "run" /\ parts' = <<request.list>>
        /\ UNCHANGED <<table, request, main, total, moved, bound, code>>
     \/ /\ Slots > Limit /\ Unsplit
        /\ Refuse
     \/ /\ Slots > Limit /\ ~Unsplit
        /\ request.kind = "sum" /\ Len(SplitParts) > 1
        /\ Refuse
     \/ /\ Slots > Limit /\ ~Unsplit
        /\ request.kind = "sum" => Len(SplitParts) = 1
        /\ stage' = "run" /\ parts' = SplitParts
        /\ UNCHANGED <<table, request, main, total, moved, bound, code>>

\* The condition on a row with the list ps, as SQL reads it: AND before OR.
ItemHolds(item, row, ps) == IF item.kind = "in" THEN row.v \in ToSet(ps) ELSE item.at \in row.holds
Matches(row, ps) ==
  \E i \in DOMAIN request.where :
    /\ i = 1 \/ HasConn(i, "or")
    /\ \A j \in i..Len(request.where) :
         (\A k \in (i + 1)..j : ~HasConn(k, "or")) => ItemHolds(request.where[j], row, ps)

\* A faulty merge of query() that does not look for the row's key.
MergedAll(rows) == main \o rows

\* The merge of query(): a row whose key was seen is not added.
Merged(rows) == main \o SelectSeq(rows, LAMBDA r : \A m \in ToSet(main) : m.id # r.id)

\* The statement of the next part; its rows come in any order, here by key.
RunPart ==
  /\ stage = "run" /\ parts # <<>>
  /\ LET rows == {r \in table : Matches(r, Head(parts))} IN
     /\ bound' = Others + Paging + Len(Head(parts))
     /\ parts' = Tail(parts)
     /\ IF request.kind = "all"
        THEN main' = Merged(SetToSortSeq(rows, LAMBDA r, s : r.id < s.id)) /\ UNCHANGED total
        ELSE total' = total + Cardinality(rows) /\ UNCHANGED main
  /\ UNCHANGED <<table, request, stage, moved, code>>

Finish ==
  /\ stage = "run" /\ parts = <<>>
  /\ stage' = "done"
  /\ UNCHANGED <<table, request, parts, main, total, moved, bound, code>>

\* Another client writes the column of the list in one row.
Move(r, v) ==
  /\ stage = "run" /\ ~moved
  /\ table' = (table \ {r}) \cup {[r EXCEPT !.v = v]}
  /\ moved' = TRUE
  /\ UNCHANGED <<request, stage, parts, main, total, bound, code>>

Next ==
  \/ Plan
  \/ RunPart
  \/ Finish
  \/ \E r \in table, v \in Values : Move(r, v)

Spec == Init /\ [][Next]_vars

-----------------------------------------------------------------------------
(* Properties.                                                             *)

\* Types.
TypeOK ==
  /\ stage \in {"plan", "run", "done", "failed"}
  /\ parts \in Seq(Seq(Values)) /\ total \in Nat /\ moved \in BOOLEAN
  /\ ToSet(main) \subseteq [id : Nat, v : Values, holds : SUBSET Nat]

\* No statement of a split read binds more parameters than the driver permits.
WithinLimit == bound <= Limit

\* docs/spec/protocol.md:285: "each row of the chunks is returned once", even when
\* the row moves from one chunk to another between their statements.
ReturnedOnce == \A i, j \in DOMAIN main : main[i].id = main[j].id => i = j

Answer == {r \in table : Matches(r, request.list)}
\* Two groups joined with OR, which rootInParts() does not look at.
GroupsOr == \E i \in DOMAIN request.where : HasConn(i, "or") /\ {request.where[i - 1].kind, request.where[i].kind} = {"group"}

\* A split read answers as the one statement that it stands for would: the same
\* rows, and when no two root groups are joined with OR the same count.
SplitExact ==
  stage = "done" /\ ~moved =>
    /\ request.kind = "all" => ToSet(main) = Answer
    /\ request.kind # "all" /\ ~GroupsOr => total = Cardinality(Answer)
=============================================================================
